---- MODULE Spec2Model ----
(***************************************************************************)
(* Model of the embedded section editor of horizontal-blocks (src/main.ts). *)
(*                                                                         *)
(* Text is modelled by TLA+ strings, one character per position, with      *)
(* "\n" as the line terminator, so that split("\n") and join("\n") are     *)
(* computed and not assumed.  Line and cursor indices are 0-based as in    *)
(* the source; sequences are 1-based, hence the "+ 1" where a line is read. *)
(***************************************************************************)
EXTENDS Integers, Sequences, FiniteSets, TLC

VARIABLES
    \* ---- inputs and output of the pure Section Locator/Splicer functions
    pureDoc,        \* the document handed to extractSection / replaceSection
    pureText,       \* the replacement text handed to replaceSection
    pureOp,         \* which function was applied last ("none" before any)
    pureOut,        \* its result
    \* ---- one Section Sync Session (EditableEmbedChild) and its document
    phase,                      \* "Loading", then "Active"
    doc,                        \* the content of the bound file in the vault
    editorLines,                \* the lines of the embedded editor's buffer
    cursorLine,                 \* editor.getCursor().line
    isProgrammaticUpdate,       \* the suppression flag
    isSaving,                   \* the save-in-flight flag
    originalHeader,
    headerLevel,
    lastCorrectedLineNumber,    \* -1 for none
    debouncePending,            \* the debounced save is armed and has not fired
    saves,                      \* the runs of the save-back body that are suspended at an await
    loads,                      \* the runs of loadSection suspended at their read, by what caused them
    flagTimers,                 \* the pending 50 ms timers that clear the suppression flag
    \* ---- history variables, read by the properties only
    lastChange,                 \* the last change notification, as the handler found the editor
    typedInWrite,               \* the buffer as left by a user edit made during the session's own write
    debounceCalls,              \* the calls of the debounced save since it last fired; -1: not counted
    \* ---- the Focus Router (EditableEmbedManager) and the host's control points
    embedRegistry,              \* the registered embeds
    currentFocusedEmbed,        \* an embed, or "null"
    originalExecuteCommand,     \* the saved dispatch function, or Null
    originalGetActiveViewOfType,\* the saved view lookup function, or Null
    focusInListener,            \* TRUE when the field holds a listener
    focusOutListener,
    executeCommand,             \* the function now at commandsApi.executeCommand
    getActiveViewOfType,        \* the function now at workspaceApi.getActiveViewOfType
    documentListeners,          \* the focusin and focusout listeners attached to the document
    domFocus,                   \* where the input focus is
    focusEvent,                 \* the focus-in event still to be delivered, or "none"
    lastDispatch,               \* history: the last command dispatched and where it went
    \* ---- what onload is given and what it shows
    rawLink,                    \* the link token the embed was constructed with
    host,                       \* what the host does when the embed opens its file
    rendered                    \* what the embed's container shows

pureVars == <<pureDoc, pureText, pureOp, pureOut>>

loadVars == <<rawLink, host, rendered>>

managerVars == <<embedRegistry, currentFocusedEmbed, originalExecuteCommand,
                 originalGetActiveViewOfType, focusInListener, focusOutListener,
                 executeCommand, getActiveViewOfType, documentListeners>>

routerVars == <<embedRegistry, currentFocusedEmbed, originalExecuteCommand,
                originalGetActiveViewOfType, focusInListener, focusOutListener,
                executeCommand, getActiveViewOfType, documentListeners,
                domFocus, focusEvent, lastDispatch>>

editorVars == <<editorLines, cursorLine, isProgrammaticUpdate, originalHeader,
                headerLevel, lastCorrectedLineNumber, debouncePending, debounceCalls>>

sessionVars == <<phase, doc, editorLines, cursorLine, isProgrammaticUpdate, isSaving,
                 originalHeader, headerLevel, lastCorrectedLineNumber, debouncePending,
                 debounceCalls, saves, loads, flagTimers, lastChange, typedInWrite>>

vars == <<pureDoc, pureText, pureOp, pureOut, phase, doc, editorLines, cursorLine,
          isProgrammaticUpdate, isSaving, originalHeader, headerLevel,
          lastCorrectedLineNumber, debouncePending, debounceCalls, saves, loads, flagTimers,
          lastChange, typedInWrite, embedRegistry, currentFocusedEmbed,
          originalExecuteCommand, originalGetActiveViewOfType, focusInListener,
          focusOutListener, executeCommand, getActiveViewOfType, documentListeners,
          domFocus, focusEvent, lastDispatch, rawLink, host, rendered>>

-----------------------------------------------------------------------------
(* Bounds *)

\* longest document, in lines, the pure functions are applied to
MaxDocLines == 4

\* the lines documents are built from: headings of depth 1, 2 and 3, a second
\* heading of the section's depth, a body line and a blank line
DocLines == {"# R", "## A", "### C", "## B", "x", ""}

\* the replacement texts
NewTexts == {"## A", "## A\nx", "## A\nx\n### C", "## A\n# Z", "## A\n## A",
             "## B\nx", "### A\nx", "# A\nx", "x", ""}

\* the section name looked up
SectionName == "A"

\* the calls of the debounced save that are counted between two firings of
\* its timer; further calls leave the count
MaxCalls == 3

-----------------------------------------------------------------------------
(* Strings *)

Ch(s, i) == SubSeq(s, i, i)

\* the characters JavaScript's \s and trim() treat as white space
WhiteSpace == {" ", "\t", "\r", "\n"}

AllIn(s, from, to, set) == \A k \in from..to : Ch(s, k) \in set

RECURSIVE Split(_)
\* content.split("\n")
Split(s) ==
    IF \E i \in 1..Len(s) : Ch(s, i) = "\n"
    THEN LET i == CHOOSE i \in 1..Len(s) :
                      Ch(s, i) = "\n" /\ \A j \in 1..(i - 1) : Ch(s, j) # "\n"
         IN  <<SubSeq(s, 1, i - 1)>> \o Split(SubSeq(s, i + 1, Len(s)))
    ELSE <<s>>

RECURSIVE Join(_)
\* lines.join("\n")
Join(lines) ==
    IF Len(lines) = 0 THEN ""
    ELSE IF Len(lines) = 1 THEN lines[1]
    ELSE lines[1] \o "\n" \o Join(Tail(lines))

\* text.trim()
Trim(s) ==
    IF AllIn(s, 1, Len(s), WhiteSpace) THEN ""
    ELSE LET a == CHOOSE a \in 1..Len(s) :
                      Ch(s, a) \notin WhiteSpace /\ AllIn(s, 1, a - 1, WhiteSpace)
             b == CHOOSE b \in 1..Len(s) :
                      Ch(s, b) \notin WhiteSpace /\ AllIn(s, b + 1, Len(s), WhiteSpace)
         IN  SubSeq(s, a, b)

RECURSIVE Repeat(_, _)
\* s.repeat(n)
Repeat(s, n) == IF n <= 0 THEN "" ELSE s \o Repeat(s, n - 1)

\* (line.match(/^#+/)?.[0] || "").length
LeadingHashes(line) ==
    CHOOSE n \in 0..Len(line) :
        /\ AllIn(line, 1, n, {"#"})
        /\ (n = Len(line) \/ Ch(line, n + 1) # "#")

\* new RegExp(`^#{1,6}\\s+${escapeRegExp(sectionName)}\\s*$`).test(line):
\* j marker characters, k white-space characters, the name taken literally,
\* then white space to the end of the line
headerRegex(line, sectionName) ==
    \E j \in 1..6 : \E k \in 1..Len(line) :
        /\ j + k + Len(sectionName) <= Len(line)
        /\ AllIn(line, 1, j, {"#"})
        /\ AllIn(line, j + 1, j + k, WhiteSpace)
        /\ SubSeq(line, j + k + 1, j + k + Len(sectionName)) = sectionName
        /\ AllIn(line, j + k + Len(sectionName) + 1, Len(line), WhiteSpace)

-----------------------------------------------------------------------------
(* Section Locator/Splicer *)

RECURSIVE FindStartFrom(_, _, _)
\* the first loop of extractSection / replaceSection, from index i on:
\* the index of the first line the header pattern matches, or -1
FindStartFrom(lines, sectionName, i) ==
    IF i >= Len(lines) THEN -1
    ELSE IF headerRegex(lines[i + 1], sectionName) THEN i
    ELSE FindStartFrom(lines, sectionName, i + 1)

FindStart(lines, sectionName) == FindStartFrom(lines, sectionName, 0)

\* EndsSection with < for <=: a heading of the section's own depth does not
\* end the section
EndsSectionStrict(line, sectionLevel) ==
    LeadingHashes(line) >= 1 /\ LeadingHashes(line) < sectionLevel

\* the comparison of the second loop: match && match[0].length <= sectionLevel
EndsSection(line, sectionLevel) ==
    LeadingHashes(line) >= 1 /\ LeadingHashes(line) <= sectionLevel

RECURSIVE FindEndFrom(_, _, _)
\* the second loop, from index i on: the index of the first line that ends
\* the section, or lines.length
FindEndFrom(lines, sectionLevel, i) ==
    IF i >= Len(lines) THEN Len(lines)
    ELSE IF EndsSection(lines[i + 1], sectionLevel) THEN i
    ELSE FindEndFrom(lines, sectionLevel, i + 1)

FindEnd(lines, startIdx) ==
    FindEndFrom(lines, LeadingHashes(lines[startIdx + 1]), startIdx + 1)

\* the text returned for a section that is not in the document
NotFoundText(sectionName) == "# " \o sectionName \o "\n\n*Section not found.*"

\* extractSection with lines.slice(startIdx, endIdx + 1): the line that ends
\* the section is returned with it
extractSectionPastEnd(content, sectionName) ==
    LET lines    == Split(content)
        startIdx == FindStart(lines, sectionName)
    IN  IF startIdx = -1 THEN NotFoundText(sectionName)
        ELSE LET endIdx == FindEnd(lines, startIdx) + 1
             IN  Join(SubSeq(lines, startIdx + 1,
                             IF endIdx > Len(lines) THEN Len(lines) ELSE endIdx))

extractSection(content, sectionName) ==
    LET lines    == Split(content)
        startIdx == FindStart(lines, sectionName)
    IN  IF startIdx = -1 THEN NotFoundText(sectionName)
        ELSE Join(SubSeq(lines, startIdx + 1, FindEnd(lines, startIdx)))

\* Splice with lines.slice(endIdx + 1) for after: the line that ends the
\* section is lost
SpliceDropsEnd(lines, startIdx, endIdx, newSectionText) ==
    Join(SubSeq(lines, 1, startIdx) \o Split(newSectionText)
         \o SubSeq(lines, endIdx + 2, Len(lines)))

\* [...before, ...newSectionText.split("\n"), ...after].join("\n")
Splice(lines, startIdx, endIdx, newSectionText) ==
    Join(SubSeq(lines, 1, startIdx) \o Split(newSectionText)
         \o SubSeq(lines, endIdx + 1, Len(lines)))

\* replaceSection that appends with a line break and no blank line
replaceSectionNoBlankLine(fullContent, sectionName, newSectionText) ==
    LET lines    == Split(fullContent)
        startIdx == FindStart(lines, sectionName)
    IN  IF startIdx = -1
        THEN Trim(Trim(fullContent) \o "\n" \o newSectionText)
        ELSE Splice(lines, startIdx, FindEnd(lines, startIdx), newSectionText)

\* replaceSection that replaces the lines from the heading to the end of
\* the document
replaceSectionToEnd(fullContent, sectionName, newSectionText) ==
    LET lines    == Split(fullContent)
        startIdx == FindStart(lines, sectionName)
    IN  IF startIdx = -1
        THEN Trim(Trim(fullContent) \o "\n\n" \o newSectionText)
        ELSE Splice(lines, startIdx, Len(lines), newSectionText)

replaceSection(fullContent, sectionName, newSectionText) ==
    LET lines    == Split(fullContent)
        startIdx == FindStart(lines, sectionName)
    IN  IF startIdx = -1
        THEN Trim(Trim(fullContent) \o "\n\n" \o newSectionText)
        ELSE Splice(lines, startIdx, FindEnd(lines, startIdx), newSectionText)

-----------------------------------------------------------------------------
(* Heading Guard: the editor-change handler of setupSectionSync *)

\* the editor and the fields of the session that an editor-change reaction
\* reads and writes, as one value
EditorState ==
    [lines                   |-> editorLines,
     cursor                  |-> cursorLine,
     isProgrammaticUpdate    |-> isProgrammaticUpdate,
     originalHeader          |-> originalHeader,
     headerLevel             |-> headerLevel,
     lastCorrectedLineNumber |-> lastCorrectedLineNumber,
     debouncePending         |-> debouncePending,
     debounceCalls           |-> debounceCalls]

\* the text of a line with the characters [fromCh, toCh) replaced by text
ReplaceInLine(line, fromCh, toCh, text) ==
    SubSeq(line, 1, fromCh) \o text \o SubSeq(line, toCh + 1, Len(line))

\* debouncedSave(): debounce(..., 750, true) arms the timer, or re-arms it
debouncedSave(e) ==
    [e EXCEPT !.debouncePending = TRUE,
              !.debounceCalls = IF @ \in 0..(MaxCalls - 1) THEN @ + 1 ELSE @]

RECURSIVE editorChange(_)

\* changedEditor.replaceRange(text, {line, ch: fromCh}, {line, ch: toCh}) on
\* one line: the buffer changes and the workspace delivers "editor-change"
\* before replaceRange returns
replaceRange(e, line, fromCh, toCh, text) ==
    editorChange([e EXCEPT !.lines[line + 1] = ReplaceInLine(@, fromCh, toCh, text)])

\* GuardHeaderLine without the suppression flag around the overwrite: the
\* overwrite's own change notification is handled
GuardHeaderLineUnsuppressed(e) ==
    LET lineContent == e.lines[e.cursor + 1]
        e2 == replaceRange(e, 0, 0, Len(lineContent), e.originalHeader)
    IN  [e2 EXCEPT !.isProgrammaticUpdate = FALSE]

\* cursor.line === 0 && lineContent !== this.originalHeader
GuardHeaderLine(e) ==
    LET lineContent == e.lines[e.cursor + 1]
        e1 == [e EXCEPT !.isProgrammaticUpdate = TRUE]
        e2 == replaceRange(e1, 0, 0, Len(lineContent), e.originalHeader)
    IN  [e2 EXCEPT !.isProgrammaticUpdate = FALSE]

\* GuardStrip that leaves the last-corrected line number in place
GuardStripKeepsMarker(e, level) ==
    LET e1 == [e EXCEPT !.isProgrammaticUpdate = TRUE]
        e2 == replaceRange(e1, e.cursor, 0, level, "")
        e3 == [e2 EXCEPT !.isProgrammaticUpdate = FALSE]
    IN  debouncedSave(e3)

\* cursor.line === this.lastCorrectedLineNumber && level < requiredLevel
GuardStrip(e, level) ==
    LET e1 == [e EXCEPT !.isProgrammaticUpdate = TRUE]
        e2 == replaceRange(e1, e.cursor, 0, level, "")
        e3 == [e2 EXCEPT !.isProgrammaticUpdate = FALSE,
                         !.lastCorrectedLineNumber = -1]
    IN  debouncedSave(e3)

\* GuardNormalize with the section's own depth for the required depth
GuardNormalizeOwnDepth(e, level) ==
    LET e1 == [e EXCEPT !.isProgrammaticUpdate = TRUE]
        e2 == replaceRange(e1, e.cursor, 0, level, Repeat("#", e.headerLevel))
    IN  [e2 EXCEPT !.lastCorrectedLineNumber = e.cursor,
                   !.isProgrammaticUpdate = FALSE]

\* level <= this.headerLevel
GuardNormalize(e, level) ==
    LET e1 == [e EXCEPT !.isProgrammaticUpdate = TRUE]
        e2 == replaceRange(e1, e.cursor, 0, level, Repeat("#", e.headerLevel + 1))
    IN  [e2 EXCEPT !.lastCorrectedLineNumber = e.cursor,
                   !.isProgrammaticUpdate = FALSE]

\* the branch taken for a body line whose trimmed text starts with "#"
GuardBodyHeading(e) ==
    LET level         == LeadingHashes(e.lines[e.cursor + 1])
        requiredLevel == e.headerLevel + 1
    IN  IF e.cursor = e.lastCorrectedLineNumber /\ level < requiredLevel
        THEN GuardStrip(e, level)
        ELSE IF level <= e.headerLevel
        THEN debouncedSave(GuardNormalize(e, level))
        ELSE debouncedSave([e EXCEPT !.lastCorrectedLineNumber = -1])

\* lineContent.trim().startsWith("#")
TrimmedStartsWithHash(lineContent) ==
    Len(Trim(lineContent)) >= 1 /\ Ch(Trim(lineContent), 1) = "#"

\* the handler registered for "editor-change"
editorChange(e) ==
    IF e.isProgrammaticUpdate THEN e
    ELSE LET lineContent == e.lines[e.cursor + 1]
         IN  IF e.cursor = 0 /\ lineContent # e.originalHeader
             THEN GuardHeaderLine(e)
             ELSE IF e.cursor > 0 /\ TrimmedStartsWithHash(lineContent)
             THEN GuardBodyHeading(e)
             ELSE debouncedSave([e EXCEPT !.lastCorrectedLineNumber = -1])

\* updateHeaderState that keeps the heading depth it had
updateHeaderStateKeepsDepth(e, content) ==
    [e EXCEPT !.originalHeader = Split(content)[1]]

\* updateHeaderState(content)
updateHeaderState(e, content) ==
    LET first == Split(content)[1]
    IN  [e EXCEPT !.originalHeader = first,
                  !.headerLevel = IF LeadingHashes(first) = 0 THEN 1
                                  ELSE LeadingHashes(first)]

-----------------------------------------------------------------------------
(* Edits of the buffer: what the user and the routed commands do to the    *)
(* editor before the change notification is delivered.  Each gives the new *)
(* lines, the new cursor line and whether the document of the editor was   *)
(* changed (a change notification follows only then).                      *)

Edit(lines, cursor, notify) == [lines |-> lines, cursor |-> cursor, notify |-> notify]

RemoveAt(lines, i) == SubSeq(lines, 1, i - 1) \o SubSeq(lines, i + 1, Len(lines))

InsertAt(lines, i, line) == SubSeq(lines, 1, i - 1) \o <<line>> \o SubSeq(lines, i, Len(lines))

\* typing on the cursor line leaves it with the text t
TypeEdit(lines, cursor, t) ==
    Edit([lines EXCEPT ![cursor + 1] = t], cursor, TRUE)

\* Enter at column ch of the cursor line
SplitEdit(lines, cursor, ch) ==
    LET line == lines[cursor + 1]
    IN  Edit(InsertAt([lines EXCEPT ![cursor + 1] = SubSeq(line, 1, ch)],
                      cursor + 2, SubSeq(line, ch + 1, Len(line))),
             cursor + 1, TRUE)

\* Backspace at column 0 of the cursor line (cursor > 0)
JoinEdit(lines, cursor) ==
    Edit(RemoveAt([lines EXCEPT ![cursor] = lines[cursor] \o lines[cursor + 1]],
                  cursor + 1),
         cursor - 1, TRUE)

swapLineUp(lines, cursor) ==
    IF cursor > 0
    THEN Edit([lines EXCEPT ![cursor] = lines[cursor + 1],
                            ![cursor + 1] = lines[cursor]],
              cursor - 1, TRUE)
    ELSE Edit(lines, cursor, FALSE)

\* editor.lastLine() is Len(lines) - 1
swapLineDown(lines, cursor) ==
    IF cursor < Len(lines) - 1
    THEN Edit([lines EXCEPT ![cursor + 1] = lines[cursor + 2],
                            ![cursor + 2] = lines[cursor + 1]],
              cursor + 1, TRUE)
    ELSE Edit(lines, cursor, FALSE)

\* replaceRange(`\n${line}`, {line: cursor.line, ch: line.length}): the copy
\* goes below, the cursor stays on its line
duplicateLine(lines, cursor) ==
    Edit(InsertAt(lines, cursor + 2, lines[cursor + 1]), cursor, TRUE)

\* replaceRange("", {line, ch: 0}, {line: line + 1, ch: 0}): on the last line
\* the end position is past the buffer and the editor clamps it to the end
\* of the buffer, so the text of the line goes and the line stays
deleteLine(lines, cursor) ==
    IF cursor < Len(lines) - 1
    THEN Edit(RemoveAt(lines, cursor + 1), cursor, TRUE)
    ELSE Edit([lines EXCEPT ![cursor + 1] = ""], cursor, lines[cursor + 1] # "")

\* line.match(/^\s*/)[0].length
IndentLength(line) ==
    CHOOSE n \in 0..Len(line) :
        /\ AllIn(line, 1, n, WhiteSpace)
        /\ (n = Len(line) \/ Ch(line, n + 1) \notin WhiteSpace)

\* the line has one of the markers at column ch
MarkerAt(line, ch, markers) ==
    ch + 5 <= Len(line) /\ SubSeq(line, ch + 1, ch + 5) \in markers

\* toggleChecklist that puts the new marker at the start of the line
toggleChecklistAtStart(lines, cursor) ==
    LET line   == lines[cursor + 1]
        indent == IndentLength(line)
    IN  IF MarkerAt(line, indent, {"- [ ]"})
        THEN TypeEdit(lines, cursor, ReplaceInLine(line, indent, indent + 5, "- [x]"))
        ELSE IF MarkerAt(line, indent, {"- [x]", "- [X]"})
        THEN TypeEdit(lines, cursor, ReplaceInLine(line, indent, indent + 5, "- [ ]"))
        ELSE TypeEdit(lines, cursor, "- [ ] " \o line)

\* toggleChecklist: /^\s*- \[ \]/ and /^\s*- \[x\]/i match a marker right
\* after the indentation, and the first marker of the line, which replace()
\* rewrites, is that one; else "- [ ] " goes between the indentation and the
\* content.  The whole line is replaced by replaceRange.
toggleChecklist(lines, cursor) ==
    LET line   == lines[cursor + 1]
        indent == IndentLength(line)
    IN  IF MarkerAt(line, indent, {"- [ ]"})
        THEN TypeEdit(lines, cursor, ReplaceInLine(line, indent, indent + 5, "- [x]"))
        ELSE IF MarkerAt(line, indent, {"- [x]", "- [X]"})
        THEN TypeEdit(lines, cursor, ReplaceInLine(line, indent, indent + 5, "- [ ]"))
        ELSE TypeEdit(lines, cursor,
                      SubSeq(line, 1, indent) \o "- [ ] "
                          \o SubSeq(line, indent + 1, Len(line)))

-----------------------------------------------------------------------------
(* Bounds of the session *)

\* the document the session is created on, and its section
InitialDoc == "# R\n## A\nx\n## B"

\* most lines the buffer is grown to by the user's edits
MaxBufLines == 3

\* longest line the user's joins build
MaxLineLen == 6

\* the texts a typed line is left with, where the Heading Guard is explored
GuardTexts == {"x", "# Z", "## Z", "#### Z"}

\* the texts a typed line is left with, where save and reload are explored
SyncTexts == {"x", "k"}

\* the documents another writer leaves in the file
ExternalDocs == {"# R\n## A\nx\n## B", "# R\n### A\ne\n## B", "# R\n## A\nx\n## B\ny"}

\* most reloads whose read or whose 50 ms timer is pending at one time
MaxLoads == 2

-----------------------------------------------------------------------------
(* Focus Router: EditableEmbedManager *)

\* the embeds: Y is the session modelled in full, Z is a second embed of
\* which the registration and the focus are modelled
Embeds == {"Y", "Z"}

\* a field that holds no function
Null == <<"null">>

\* the host's own functions at its two control points
HostExecuteCommand == <<"host">>

HostGetActiveViewOfType == <<"host">>

\* the function the manager puts at a control point: a closure that calls f
Wrapper(f) == <<"wrapper">> \o f

\* the fields of the manager and the host's control points, as one value
ManagerState ==
    [embedRegistry               |-> embedRegistry,
     currentFocusedEmbed         |-> currentFocusedEmbed,
     originalExecuteCommand      |-> originalExecuteCommand,
     originalGetActiveViewOfType |-> originalGetActiveViewOfType,
     focusInListener             |-> focusInListener,
     focusOutListener            |-> focusOutListener,
     executeCommand              |-> executeCommand,
     getActiveViewOfType         |-> getActiveViewOfType,
     documentListeners           |-> documentListeners]

\* the host has its command registry (app.commands), so the early return
\* is not taken
overrideCommands(m) ==
    [m EXCEPT !.originalExecuteCommand = m.executeCommand,
              !.executeCommand = Wrapper(m.executeCommand)]

overrideGetActiveView(m) ==
    [m EXCEPT !.originalGetActiveViewOfType = m.getActiveViewOfType,
              !.getActiveViewOfType = Wrapper(m.getActiveViewOfType)]

attachFocusListeners(m) ==
    [m EXCEPT !.focusInListener = TRUE,
              !.focusOutListener = TRUE,
              !.documentListeners = [focusin  |-> @.focusin + 1,
                                     focusout |-> @.focusout + 1]]

\* ensureHooks without the test of originalExecuteCommand
ensureHooksAlways(m) ==
    attachFocusListeners(overrideGetActiveView(overrideCommands(m)))

ensureHooks(m) ==
    IF m.originalExecuteCommand = Null
    THEN attachFocusListeners(overrideGetActiveView(overrideCommands(m)))
    ELSE m

removeHooks(m) ==
    LET m1 == IF m.originalExecuteCommand # Null
              THEN [m EXCEPT !.executeCommand = m.originalExecuteCommand,
                             !.originalExecuteCommand = Null]
              ELSE m
        m2 == IF m1.originalGetActiveViewOfType # Null
              THEN [m1 EXCEPT !.getActiveViewOfType = m1.originalGetActiveViewOfType,
                              !.originalGetActiveViewOfType = Null]
              ELSE m1
        m3 == IF m2.focusInListener
              THEN [m2 EXCEPT !.documentListeners.focusin = @ - 1,
                              !.focusInListener = FALSE]
              ELSE m2
    IN  IF m3.focusOutListener
        THEN [m3 EXCEPT !.documentListeners.focusout = @ - 1,
                        !.focusOutListener = FALSE]
        ELSE m3

registerEmbed(m, embed) ==
    ensureHooks([m EXCEPT !.embedRegistry = @ \cup {embed}])

\* unregisterEmbed without the reset of currentFocusedEmbed
unregisterEmbedKeepsFocus(m, embed) ==
    LET m1 == [m EXCEPT !.embedRegistry = @ \ {embed}]
    IN  IF m1.embedRegistry = {} THEN removeHooks(m1) ELSE m1

unregisterEmbed(m, embed) ==
    LET m1 == [m EXCEPT !.embedRegistry = @ \ {embed}]
        m2 == IF m1.currentFocusedEmbed = embed
              THEN [m1 EXCEPT !.currentFocusedEmbed = "null"]
              ELSE m1
    IN  IF m2.embedRegistry = {} THEN removeHooks(m2) ELSE m2

dispose(m) ==
    removeHooks([m EXCEPT !.embedRegistry = {}, !.currentFocusedEmbed = "null"])

\* an element is inside the container of an embed, or "outside" every
\* embed, or "null"; the walk up its ancestors finds the container
findEmbedForElement(m, element) ==
    IF element \in m.embedRegistry THEN element ELSE "null"

\* focusInListener that leaves a session that is focused in place
focusInKeeps(m, target) ==
    LET embed == findEmbedForElement(m, target)
    IN  IF embed # "null" /\ m.currentFocusedEmbed = "null"
        THEN [m EXCEPT !.currentFocusedEmbed = embed]
        ELSE m

\* the listener for "focusin"
focusIn(m, target) ==
    LET embed == findEmbedForElement(m, target)
    IN  IF embed # "null" THEN [m EXCEPT !.currentFocusedEmbed = embed] ELSE m

\* the listener for "focusout"
focusOut(m, relatedTarget) ==
    LET embed == findEmbedForElement(m, relatedTarget)
    IN  IF embed = "null" THEN [m EXCEPT !.currentFocusedEmbed = "null"] ELSE m

\* the fields of a manager state become the next values of the variables
AdoptManager(m) ==
    /\ embedRegistry' = m.embedRegistry
    /\ currentFocusedEmbed' = m.currentFocusedEmbed
    /\ originalExecuteCommand' = m.originalExecuteCommand
    /\ originalGetActiveViewOfType' = m.originalGetActiveViewOfType
    /\ focusInListener' = m.focusInListener
    /\ focusOutListener' = m.focusOutListener
    /\ executeCommand' = m.executeCommand
    /\ getActiveViewOfType' = m.getActiveViewOfType
    /\ documentListeners' = m.documentListeners

\* no command has been dispatched
NoDispatch == [id |-> "none", args |-> <<>>, wrapped |-> FALSE, focused |-> "null",
               ranOn |-> "none", original |-> FALSE, originalId |-> "none",
               originalArgs |-> <<>>, view |-> "none", wrote |-> {}]

\* the manager as constructed, and the host before any interception
RouterInit ==
    /\ embedRegistry = {}
    /\ currentFocusedEmbed = "null"
    /\ originalExecuteCommand = Null
    /\ originalGetActiveViewOfType = Null
    /\ focusInListener = FALSE
    /\ focusOutListener = FALSE
    /\ executeCommand = HostExecuteCommand
    /\ getActiveViewOfType = HostGetActiveViewOfType
    /\ documentListeners = [focusin |-> 0, focusout |-> 0]
    /\ domFocus = "outside"
    /\ focusEvent = "none"
    /\ lastDispatch = NoDispatch

-----------------------------------------------------------------------------
(* The session *)

NoChange == [kind |-> "none", handled |-> FALSE, lines |-> <<>>, line |-> 0,
             last |-> -1, pending |-> FALSE]

\* the fields of an editor state become the next values of the variables
Adopt(e) ==
    /\ editorLines' = e.lines
    /\ cursorLine' = e.cursor
    /\ isProgrammaticUpdate' = e.isProgrammaticUpdate
    /\ originalHeader' = e.originalHeader
    /\ headerLevel' = e.headerLevel
    /\ lastCorrectedLineNumber' = e.lastCorrectedLineNumber
    /\ debouncePending' = e.debouncePending
    /\ debounceCalls' = e.debounceCalls

\* the session as constructed on a note whose text is content
SessionStartOn(content) ==
    /\ phase = "Loading"
    /\ doc = content
    /\ editorLines = <<"">>
    /\ cursorLine = 0
    /\ isProgrammaticUpdate = FALSE
    /\ isSaving = FALSE
    /\ originalHeader = ""
    /\ headerLevel = 0
    /\ lastCorrectedLineNumber = -1
    /\ debouncePending = FALSE
    /\ saves = <<>>
    /\ loads = [ext |-> 0, own |-> 0]
    /\ flagTimers = 0
    /\ lastChange = NoChange
    /\ typedInWrite = <<>>

SessionStart == SessionStartOn(InitialDoc)

\* ---- resolving the link and opening the file (onload)

\* the note the panel is rendered in
SourcePath == "S"

\* the files of the vault and their extensions; every other path resolves to
\* nothing
VaultFiles == [N |-> "md", S |-> "md", P |-> "png"]

\* metadataCache.getFirstLinkpathDest(linkpath, sourcePath)
getFirstLinkpathDest(linkpath) ==
    IF linkpath \in DOMAIN VaultFiles THEN linkpath ELSE "null"

\* s.indexOf(c), -1 when c does not occur
IndexOf(s, c) ==
    LET hits == {i \in 1..Len(s) : Ch(s, i) = c}
    IN  IF hits = {} THEN -1
        ELSE (CHOOSE i \in hits : \A j \in hits : i <= j) - 1

\* s.slice(from)
SliceFrom(s, from) == SubSeq(s, from + 1, Len(s))

\* s.slice(0, to)
SliceTo(s, to) == SubSeq(s, 1, to)

\* s.split(sep)[0]
SplitFirst(s, sep) ==
    IF IndexOf(s, sep) < 0 THEN s ELSE SliceTo(s, IndexOf(s, sep))

\* s.startsWith(c) for a one-character c
StartsWith(s, c) == Len(s) > 0 /\ Ch(s, 1) = c

\* the link tokens the embed is constructed with: with and without a section,
\* with an alias, with an empty path, to a note that does not exist ("M"), to
\* a file that is not Markdown ("P"), to the source note, and block
\* references.  The only heading section named is SectionName.
RawLinks ==
    {"N#A", "N#A|a", "#A", "N", "N#", "S", "#", "", "|a", "M", "M#A", "P", "P#A",
     "N#^b", "#^b", "M#^b", "P#^b", "N#^b|a"}

\* what the host does when the embed opens its file and reads it: a Markdown
\* view, a view of another kind, openFile throwing, vault.read throwing
HostOutcomes == {"ok", "otherView", "openThrows", "readThrows"}

ErrorMessages ==
    {"Unable to resolve embed target.",
     "Block reference embeds are not supported yet.",
     "Embedded note not found.",
     "Cannot embed the current note within itself.",
     "Failed to render embed as markdown.",
     "Error loading embedded note."}

\* resolveLink returns null, or {file, section} with either of them null
resolveLink(raw) ==
    LET linkPath     == SplitFirst(raw, "|")
        sectionIndex == IndexOf(linkPath, "#")
        hasSection   == sectionIndex >= 0
        notePath     == IF hasSection THEN SliceTo(linkPath, sectionIndex) ELSE linkPath
        section      == IF hasSection /\ Len(SliceFrom(linkPath, sectionIndex + 1)) > 0
                        THEN SliceFrom(linkPath, sectionIndex + 1)
                        ELSE "null"
        targetFile   == getFirstLinkpathDest(IF notePath = "" THEN SourcePath
                                             ELSE notePath)
    IN  IF linkPath = "" THEN [result |-> "null", file |-> "null", section |-> "null"]
        ELSE IF targetFile # "null" /\ VaultFiles[targetFile] # "md"
        THEN [result |-> "object", file |-> "null", section |-> "null"]
        ELSE [result |-> "object", file |-> targetFile, section |-> section]

\* onload without the test of the view's kind: any view is taken as the editor
onloadAnyView(raw, h) ==
    LET targetInfo == resolveLink(raw)
    IN  IF targetInfo.result = "null" THEN "Unable to resolve embed target."
        ELSE IF targetInfo.section # "null" /\ StartsWith(targetInfo.section, "^")
        THEN "Block reference embeds are not supported yet."
        ELSE IF targetInfo.file = "null" THEN "Embedded note not found."
        ELSE IF targetInfo.file = SourcePath /\ targetInfo.section = "null"
        THEN "Cannot embed the current note within itself."
        ELSE IF h = "openThrows" THEN "Error loading embedded note."
        ELSE IF targetInfo.section # "null" /\ h = "readThrows"
        THEN "Error loading embedded note."
        ELSE "editor"

\* what onload leaves in the container: the message of renderError on the
\* path taken, or the editor.  vault.read is called only for a section.
onload(raw, h) ==
    LET targetInfo == resolveLink(raw)
    IN  IF targetInfo.result = "null" THEN "Unable to resolve embed target."
        ELSE IF targetInfo.section # "null" /\ StartsWith(targetInfo.section, "^")
        THEN "Block reference embeds are not supported yet."
        ELSE IF targetInfo.file = "null" THEN "Embedded note not found."
        ELSE IF targetInfo.file = SourcePath /\ targetInfo.section = "null"
        THEN "Cannot embed the current note within itself."
        ELSE IF h = "openThrows" THEN "Error loading embedded note."
        ELSE IF h = "otherView" THEN "Failed to render embed as markdown."
        ELSE IF targetInfo.section # "null" /\ h = "readThrows"
        THEN "Error loading embedded note."
        ELSE "editor"

\* the embed as constructed for the link to section SectionName of the note,
\* in a host that opens and reads it
LoadDefault ==
    /\ rawLink = "N#A"
    /\ host = "ok"
    /\ rendered = "empty"

\* the session as constructed; the calls of the debounced save are not counted
SessionInit == SessionStart /\ RouterInit /\ debounceCalls = -1 /\ LoadDefault

\* onload with a section: setupSectionSync runs loadSection once, before the
\* handlers are registered, and the session is Active
OnloadSection ==
    /\ phase = "Loading"
    /\ onload(rawLink, host) = "editor"
    /\ resolveLink(rawLink).section = SectionName
    /\ phase' = "Active"
    /\ rendered' = "editor"
    /\ LET sectionContent == extractSection(doc, SectionName)
           e == updateHeaderState(EditorState, sectionContent)
       IN  Adopt([e EXCEPT !.lines = Split(sectionContent), !.cursor = 0,
                           !.isProgrammaticUpdate = TRUE])
    /\ flagTimers' = flagTimers + 1
    /\ lastChange' = NoChange
    /\ AdoptManager(registerEmbed(ManagerState, "Y"))
    /\ UNCHANGED <<doc, isSaving, saves, loads, typedInWrite>>
    /\ lastDispatch' = NoDispatch
    /\ UNCHANGED <<domFocus, focusEvent>>
    /\ UNCHANGED pureVars
    /\ UNCHANGED <<rawLink, host>>

\* onload with no section: the host's view of the whole note is shown and
\* the embed is registered; setupSectionSync is not called, so the session
\* has no handlers of its own
OnloadFile ==
    /\ phase = "Loading"
    /\ onload(rawLink, host) = "editor"
    /\ resolveLink(rawLink).section = "null"
    /\ phase' = "Whole File"
    /\ rendered' = "editor"
    /\ editorLines' = Split(doc)
    /\ lastChange' = NoChange
    /\ AdoptManager(registerEmbed(ManagerState, "Y"))
    /\ UNCHANGED <<doc, cursorLine, isProgrammaticUpdate, isSaving, originalHeader,
                   headerLevel, lastCorrectedLineNumber, debouncePending,
                   debounceCalls, saves, loads, flagTimers, typedInWrite>>
    /\ lastDispatch' = NoDispatch
    /\ UNCHANGED <<domFocus, focusEvent>>
    /\ UNCHANGED pureVars
    /\ UNCHANGED <<rawLink, host>>

\* onload on a path that ends in renderError: an early return, the view that
\* is no MarkdownView, or the catch block.  loadSection sets
\* isProgrammaticUpdate before vault.read throws.
OnloadError ==
    /\ phase = "Loading"
    /\ onload(rawLink, host) \in ErrorMessages
    /\ phase' = "Failed"
    /\ rendered' = onload(rawLink, host)
    /\ isProgrammaticUpdate' =
           (onload(rawLink, "ok") = "editor" /\ host = "readThrows")
    /\ lastChange' = NoChange
    /\ UNCHANGED <<doc, editorLines, cursorLine, isSaving, originalHeader,
                   headerLevel, lastCorrectedLineNumber, debouncePending,
                   debounceCalls, saves, loads, flagTimers, typedInWrite>>
    /\ UNCHANGED pureVars
    /\ UNCHANGED routerVars
    /\ UNCHANGED <<rawLink, host>>

\* another writer changes the note while no handler of the session is
\* registered on the vault
WriteUnwatched ==
    /\ phase \in {"Failed", "Whole File"}
    /\ \E d \in ExternalDocs :
        /\ d # doc
        /\ doc' = d
    /\ lastChange' = NoChange
    /\ UNCHANGED <<phase, editorLines, cursorLine, isProgrammaticUpdate, isSaving,
                   originalHeader, headerLevel, lastCorrectedLineNumber,
                   debouncePending, debounceCalls, saves, loads, flagTimers,
                   typedInWrite>>
    /\ UNCHANGED pureVars
    /\ UNCHANGED loadVars
    /\ UNCHANGED routerVars

\* window.setTimeout(() => (this.isProgrammaticUpdate = false), 50) fires
FlagTimerFires ==
    /\ flagTimers > 0
    /\ flagTimers' = flagTimers - 1
    /\ isProgrammaticUpdate' = FALSE
    /\ lastChange' = NoChange
    /\ UNCHANGED <<phase, doc, editorLines, cursorLine, isSaving, originalHeader,
                   headerLevel, lastCorrectedLineNumber, debouncePending, debounceCalls, saves,
                   loads, typedInWrite>>
    /\ UNCHANGED pureVars
    /\ UNCHANGED loadVars
    /\ UNCHANGED routerVars

\* the user moves the cursor to another line; the buffer does not change
MoveCursor ==
    /\ phase = "Active"
    /\ \E l \in 0..(Len(editorLines) - 1) :
        /\ l # cursorLine
        /\ cursorLine' = l
    /\ lastChange' = NoChange
    /\ UNCHANGED <<phase, doc, editorLines, isProgrammaticUpdate, isSaving,
                   originalHeader, headerLevel, lastCorrectedLineNumber,
                   debouncePending, debounceCalls, saves, loads, flagTimers, typedInWrite>>
    /\ UNCHANGED pureVars
    /\ UNCHANGED loadVars
    /\ UNCHANGED routerVars

WriteInProgress == \E i \in 1..Len(saves) : saves[i].pc = "modify"

\* an edit of the buffer followed, when the buffer changed, by the
\* "editor-change" notification and the handler's whole reaction to it
UserChange(edit) ==
    /\ phase = "Active"
    /\ LET found == [EditorState EXCEPT !.lines = edit.lines, !.cursor = edit.cursor]
           e     == IF edit.notify THEN editorChange(found) ELSE found
       IN  /\ Adopt(e)
           /\ lastChange' = IF edit.notify
                            THEN [kind    |-> "change",
                                  handled |-> ~isProgrammaticUpdate,
                                  lines   |-> edit.lines,
                                  line    |-> edit.cursor,
                                  last    |-> lastCorrectedLineNumber,
                                  pending |-> debouncePending]
                            ELSE NoChange
           /\ typedInWrite' = IF ~edit.notify THEN typedInWrite
                              ELSE IF WriteInProgress THEN <<e.lines>> ELSE <<>>
    /\ UNCHANGED <<phase, doc, isSaving, saves, loads, flagTimers>>
    /\ UNCHANGED pureVars
    /\ UNCHANGED loadVars

TypeLine(texts) ==
    /\ \E t \in texts :
        /\ t # editorLines[cursorLine + 1]
        /\ UserChange(TypeEdit(editorLines, cursorLine, t))
    /\ UNCHANGED routerVars

\* Enter at the start or at the end of the cursor line
SplitLine ==
    /\ Len(editorLines) < MaxBufLines
    /\ \E ch \in {0, Len(editorLines[cursorLine + 1])} :
        UserChange(SplitEdit(editorLines, cursorLine, ch))
    /\ UNCHANGED routerVars

\* Backspace at the start of a line below the heading line, or of an empty
\* line, or below an empty line
JoinLine ==
    /\ cursorLine > 0
    /\ cursorLine = 1 \/ editorLines[cursorLine] = "" \/ editorLines[cursorLine + 1] = ""
    /\ Len(editorLines[cursorLine]) + Len(editorLines[cursorLine + 1]) <= MaxLineLen
    /\ UserChange(JoinEdit(editorLines, cursorLine))
    /\ UNCHANGED routerVars

\* the commands the Focus Router routes to the session's editor
CommandSwapLineUp ==
    /\ UserChange(swapLineUp(editorLines, cursorLine))
    /\ UNCHANGED routerVars

CommandSwapLineDown ==
    /\ UserChange(swapLineDown(editorLines, cursorLine))
    /\ UNCHANGED routerVars

CommandDuplicateLine ==
    /\ Len(editorLines) < MaxBufLines
    /\ UserChange(duplicateLine(editorLines, cursorLine))
    /\ UNCHANGED routerVars

CommandDeleteLine ==
    /\ UserChange(deleteLine(editorLines, cursorLine))
    /\ UNCHANGED routerVars

-----------------------------------------------------------------------------
(* Save-back and reload *)

\* vaultModify without the test of isSaving
vaultModifyUnguarded(saving, origin) ==
    /\ isProgrammaticUpdate' = TRUE
    /\ loads' = [loads EXCEPT ![origin] = @ + 1]

\* the handler registered for the vault's "modify" event, for a change of
\* the bound file caused by origin ("ext": another writer, "own": this
\* session's save-back): loadSection runs up to its read
vaultModify(saving, origin) ==
    IF ~saving
    THEN /\ isProgrammaticUpdate' = TRUE
         /\ loads' = [loads EXCEPT ![origin] = @ + 1]
    ELSE UNCHANGED <<isProgrammaticUpdate, loads>>

\* SaveFires without the test of isSaving
SaveFiresUnchecked ==
    /\ debouncePending
    /\ debouncePending' = FALSE
    /\ debounceCalls' = (IF debounceCalls < 0 THEN debounceCalls ELSE 0)
    /\ isSaving' = TRUE
    /\ saves' = Append(saves, [pc |-> "read",
                               newSectionContent |-> Join(editorLines),
                               calls |-> debounceCalls,
                               currentFileContent |-> "",
                               updatedFileContent |-> ""])
    /\ lastChange' = NoChange
    /\ UNCHANGED <<phase, doc, editorLines, cursorLine, isProgrammaticUpdate,
                   originalHeader, headerLevel, lastCorrectedLineNumber, loads,
                   flagTimers, typedInWrite>>
    /\ UNCHANGED pureVars
    /\ UNCHANGED loadVars
    /\ UNCHANGED routerVars

\* SaveFires with a timer that stays armed when it has fired
SaveFiresStaysArmed ==
    /\ debouncePending
    /\ UNCHANGED <<debouncePending, debounceCalls>>
    /\ IF isSaving
       THEN UNCHANGED <<isSaving, saves>>
       ELSE /\ isSaving' = TRUE
            /\ saves' = Append(saves, [pc |-> "read",
                                       newSectionContent |-> Join(editorLines),
                                       calls |-> debounceCalls,
                                       currentFileContent |-> "",
                                       updatedFileContent |-> ""])
    /\ lastChange' = [NoChange EXCEPT !.kind = IF isSaving THEN "dropped" ELSE "none"]
    /\ UNCHANGED <<phase, doc, editorLines, cursorLine, isProgrammaticUpdate,
                   originalHeader, headerLevel, lastCorrectedLineNumber, loads,
                   flagTimers, typedInWrite>>
    /\ UNCHANGED pureVars
    /\ UNCHANGED loadVars
    /\ UNCHANGED routerVars

\* the debounce timer fires and the save-back body runs up to its read
SaveFires ==
    /\ debouncePending
    /\ debouncePending' = FALSE
    /\ debounceCalls' = (IF debounceCalls < 0 THEN debounceCalls ELSE 0)
    /\ IF isSaving
       THEN UNCHANGED <<isSaving, saves>>
       ELSE /\ isSaving' = TRUE
            /\ saves' = Append(saves, [pc |-> "read",
                                       newSectionContent |-> Join(editorLines),
                               calls |-> debounceCalls,
                                       currentFileContent |-> "",
                                       updatedFileContent |-> ""])
    /\ lastChange' = [NoChange EXCEPT !.kind = IF isSaving THEN "dropped" ELSE "none"]
    /\ UNCHANGED <<phase, doc, editorLines, cursorLine, isProgrammaticUpdate,
                   originalHeader, headerLevel, lastCorrectedLineNumber, loads,
                   flagTimers, typedInWrite>>
    /\ UNCHANGED pureVars
    /\ UNCHANGED loadVars
    /\ UNCHANGED routerVars

\* SaveRead with this.isSaving = false before the write is awaited
SaveReadClearsEarly ==
    /\ \E i \in 1..Len(saves) :
        /\ saves[i].pc = "read"
        /\ LET currentFileContent == doc
               updatedFileContent == replaceSection(currentFileContent, SectionName,
                                                    saves[i].newSectionContent)
           IN  IF updatedFileContent # currentFileContent
               THEN saves' = [saves EXCEPT ![i].pc = "modify",
                                           ![i].currentFileContent = currentFileContent,
                                           ![i].updatedFileContent = updatedFileContent]
               ELSE saves' = RemoveAt(saves, i)
    /\ isSaving' = FALSE
    /\ lastChange' = NoChange
    /\ UNCHANGED <<phase, doc, editorLines, cursorLine, isProgrammaticUpdate,
                   originalHeader, headerLevel, lastCorrectedLineNumber,
                   debouncePending, debounceCalls, loads, flagTimers, typedInWrite>>
    /\ UNCHANGED pureVars
    /\ UNCHANGED loadVars
    /\ UNCHANGED routerVars

\* SaveRead without the re-read: the buffer is spliced into the document as
\* it was when the session was created
SaveReadNoReread ==
    /\ \E i \in 1..Len(saves) :
        /\ saves[i].pc = "read"
        /\ LET currentFileContent == InitialDoc
               updatedFileContent == replaceSection(currentFileContent, SectionName,
                                                    saves[i].newSectionContent)
           IN  IF updatedFileContent # doc
               THEN /\ saves' = [saves EXCEPT ![i].pc = "modify",
                                              ![i].currentFileContent = doc,
                                              ![i].updatedFileContent = updatedFileContent]
                    /\ UNCHANGED isSaving
               ELSE /\ saves' = RemoveAt(saves, i)
                    /\ isSaving' = FALSE
    /\ lastChange' = NoChange
    /\ UNCHANGED <<phase, doc, editorLines, cursorLine, isProgrammaticUpdate,
                   originalHeader, headerLevel, lastCorrectedLineNumber,
                   debouncePending, debounceCalls, loads, flagTimers, typedInWrite>>
    /\ UNCHANGED pureVars
    /\ UNCHANGED loadVars
    /\ UNCHANGED routerVars

\* vault.read resolves: the section is spliced into what was read, and the
\* result is written when it differs
SaveRead ==
    /\ \E i \in 1..Len(saves) :
        /\ saves[i].pc = "read"
        /\ LET currentFileContent == doc
               updatedFileContent == replaceSection(currentFileContent, SectionName,
                                                    saves[i].newSectionContent)
           IN  IF updatedFileContent # currentFileContent
               THEN /\ saves' = [saves EXCEPT ![i].pc = "modify",
                                              ![i].currentFileContent = currentFileContent,
                                              ![i].updatedFileContent = updatedFileContent]
                    /\ UNCHANGED isSaving
               ELSE /\ saves' = RemoveAt(saves, i)
                    /\ isSaving' = FALSE
    /\ lastChange' = NoChange
    /\ UNCHANGED <<phase, doc, editorLines, cursorLine, isProgrammaticUpdate,
                   originalHeader, headerLevel, lastCorrectedLineNumber,
                   debouncePending, debounceCalls, loads, flagTimers, typedInWrite>>
    /\ UNCHANGED pureVars
    /\ UNCHANGED loadVars
    /\ UNCHANGED routerVars

\* vault.modify writes the file; the vault emits "modify" for it while the
\* call is still pending, so the session's handler runs before the
\* save-back body resumes
SaveModify ==
    /\ \E i \in 1..Len(saves) :
        /\ saves[i].pc = "modify"
        /\ doc' = saves[i].updatedFileContent
        /\ saves' = [saves EXCEPT ![i].pc = "modified"]
    /\ vaultModify(isSaving, "own")
    /\ lastChange' = NoChange
    /\ UNCHANGED <<phase, editorLines, cursorLine, isSaving, originalHeader,
                   headerLevel, lastCorrectedLineNumber, debouncePending, debounceCalls,
                   flagTimers, typedInWrite>>
    /\ UNCHANGED pureVars
    /\ UNCHANGED loadVars
    /\ UNCHANGED routerVars

\* the save-back body resumes after vault.modify: this.isSaving = false
SaveDone ==
    /\ \E i \in 1..Len(saves) :
        /\ saves[i].pc = "modified"
        /\ saves' = RemoveAt(saves, i)
    /\ isSaving' = FALSE
    /\ lastChange' = NoChange
    /\ UNCHANGED <<phase, doc, editorLines, cursorLine, isProgrammaticUpdate,
                   originalHeader, headerLevel, lastCorrectedLineNumber,
                   debouncePending, debounceCalls, loads, flagTimers, typedInWrite>>
    /\ UNCHANGED pureVars
    /\ UNCHANGED loadVars
    /\ UNCHANGED routerVars

\* vault.read rejects: the save-back body ends there, with no handler for
\* the rejection, and the statement that clears isSaving is not reached
SaveReadFails ==
    /\ \E i \in 1..Len(saves) :
        /\ saves[i].pc = "read"
        /\ saves' = RemoveAt(saves, i)
    /\ lastChange' = [NoChange EXCEPT !.kind = "save failed"]
    /\ UNCHANGED <<phase, doc, editorLines, cursorLine, isProgrammaticUpdate, isSaving,
                   originalHeader, headerLevel, lastCorrectedLineNumber,
                   debouncePending, debounceCalls, loads, flagTimers, typedInWrite>>
    /\ UNCHANGED pureVars
    /\ UNCHANGED loadVars
    /\ UNCHANGED routerVars

\* vault.modify rejects and the file is not written: the save-back body
\* ends there likewise
SaveModifyFails ==
    /\ \E i \in 1..Len(saves) :
        /\ saves[i].pc = "modify"
        /\ saves' = RemoveAt(saves, i)
    /\ lastChange' = [NoChange EXCEPT !.kind = "save failed"]
    /\ UNCHANGED <<phase, doc, editorLines, cursorLine, isProgrammaticUpdate, isSaving,
                   originalHeader, headerLevel, lastCorrectedLineNumber,
                   debouncePending, debounceCalls, loads, flagTimers, typedInWrite>>
    /\ UNCHANGED pureVars
    /\ UNCHANGED loadVars
    /\ UNCHANGED routerVars

\* another writer leaves the file with other content and the vault emits
\* "modify" for it
ExternalWrite ==
    /\ phase = "Active"
    /\ loads.ext + loads.own + flagTimers < MaxLoads
    /\ \E d \in ExternalDocs :
        /\ d # doc
        /\ doc' = d
    /\ vaultModify(isSaving, "ext")
    /\ lastChange' = NoChange
    /\ UNCHANGED <<phase, editorLines, cursorLine, isSaving, originalHeader,
                   headerLevel, lastCorrectedLineNumber, debouncePending, debounceCalls, saves,
                   flagTimers, typedInWrite>>
    /\ UNCHANGED pureVars
    /\ UNCHANGED loadVars
    /\ UNCHANGED routerVars

\* loadSection resumes after its read: the section is extracted, the header
\* state reset, the buffer overwritten (its change notification is delivered
\* inside setValue, with the cursor at the start of the buffer), the cursor
\* put back when its line and column still exist, and the timer started
LoadDone ==
    /\ \E origin \in {"ext", "own"} :
        /\ loads[origin] > 0
        /\ loads' = [loads EXCEPT ![origin] = @ - 1]
        /\ typedInWrite' = IF origin = "ext" THEN <<>> ELSE typedInWrite
    /\ LET sectionContent == extractSection(doc, SectionName)
           e1     == updateHeaderState(EditorState, sectionContent)
           cursor == cursorLine
           set    == [e1 EXCEPT !.lines = Split(sectionContent), !.cursor = 0]
           \* the handler is registered with the session and goes with it
           e2     == IF phase = "Active" THEN editorChange(set) ELSE set
           \* some column of the old cursor line is within the new line
           \* (column 0 always is), and some is not when the new line is shorter
           fits   == {TRUE} \cup
                     (IF Len(e2.lines) > cursor
                         /\ Len(editorLines[cursor + 1]) > Len(e2.lines[cursor + 1])
                      THEN {FALSE} ELSE {})
       IN  \E fit \in fits :
               Adopt(IF Len(e2.lines) > cursor /\ fit
                     THEN [e2 EXCEPT !.cursor = cursor] ELSE e2)
    /\ flagTimers' = flagTimers + 1
    /\ lastChange' = NoChange
    /\ UNCHANGED <<phase, doc, isSaving, saves>>
    /\ UNCHANGED pureVars
    /\ UNCHANGED loadVars
    /\ UNCHANGED routerVars

\* the vault.read of a reload rejects: loadSection ends there, with the
\* flag set by its first statement, the buffer not touched and no timer
\* started; the handler of "modify" has no handler for the rejection
LoadFails ==
    /\ \E origin \in {"ext", "own"} :
        /\ loads[origin] > 0
        /\ loads' = [loads EXCEPT ![origin] = @ - 1]
    /\ lastChange' = [NoChange EXCEPT !.kind = "load failed"]
    /\ UNCHANGED <<phase, doc, editorLines, cursorLine, isProgrammaticUpdate, isSaving,
                   originalHeader, headerLevel, lastCorrectedLineNumber,
                   debouncePending, debounceCalls, saves, flagTimers, typedInWrite>>
    /\ UNCHANGED pureVars
    /\ UNCHANGED loadVars
    /\ UNCHANGED routerVars

\* Onunload without the call of cancel
OnunloadNoCancel ==
    /\ phase = "Active"
    /\ phase' = "Torn Down"
    /\ AdoptManager(unregisterEmbed(ManagerState, "Y"))
    /\ lastChange' = NoChange
    /\ UNCHANGED <<doc, editorLines, cursorLine, isProgrammaticUpdate, isSaving,
                   originalHeader, headerLevel, lastCorrectedLineNumber,
                   debouncePending, debounceCalls, saves, loads, flagTimers,
                   typedInWrite>>
    /\ lastDispatch' = NoDispatch
    /\ UNCHANGED <<domFocus, focusEvent>>
    /\ UNCHANGED pureVars
    /\ UNCHANGED loadVars

\* onunload of an Active session: the embed is unregistered, the pending
\* debounced save is cancelled, the leaf is detached and the view dropped;
\* the host has removed the handlers registered with registerEvent
Onunload ==
    /\ phase = "Active"
    /\ phase' = "Torn Down"
    /\ AdoptManager(unregisterEmbed(ManagerState, "Y"))
    /\ debouncePending' = FALSE
    /\ debounceCalls' = (IF debounceCalls < 0 THEN debounceCalls ELSE 0)
    /\ lastChange' = [NoChange EXCEPT !.kind = IF debouncePending THEN "cancelled"
                                                ELSE "none"]
    /\ UNCHANGED <<doc, editorLines, cursorLine, isProgrammaticUpdate, isSaving,
                   originalHeader, headerLevel, lastCorrectedLineNumber, saves,
                   loads, flagTimers, typedInWrite>>
    /\ lastDispatch' = NoDispatch
    /\ UNCHANGED <<domFocus, focusEvent>>
    /\ UNCHANGED pureVars
    /\ UNCHANGED loadVars

-----------------------------------------------------------------------------
(* The Focus Router at work: a second embed, focus events, commands *)

\* the fifteen ids of handlerMap
RecognizedIds ==
    {"editor:toggle-checklist-status", "editor:toggle-bold", "editor:toggle-italics",
     "editor:toggle-strikethrough", "editor:toggle-code", "editor:insert-link",
     "editor:toggle-bullet-list", "editor:toggle-numbered-list", "editor:indent-list",
     "editor:unindent-list", "editor:insert-tag", "editor:swap-line-up",
     "editor:swap-line-down", "editor:duplicate-line", "editor:delete-line"}

\* a command object with no id
NoId == "undefined"

\* the host's commands that act on the Markdown view the workspace reports as
\* active: its own forms of the recognized commands, and one the manager has
\* no handler for
HostEditorIds == RecognizedIds \cup {"editor:toggle-highlight"}

\* the commands dispatched: the four line commands, a host editor command and
\* a host command that touches no view, both outside handlerMap, and a
\* command without an id
DispatchedIds ==
    {"editor:swap-line-up", "editor:swap-line-down", "editor:duplicate-line",
     "editor:delete-line", "editor:toggle-highlight", "app:open-settings", NoId}

\* the argument list a command is dispatched with
DispatchedArgs == {<<"arg">>}

\* the elements that take the focus: one inside each embed's container and
\* one outside every embed
Elements == Embeds \cup {"outside"}

\* embed.getEditor() is not null: the embed has its view.  Z is registered
\* and unregistered with its view in place.
HasEditor(embed) == embed = "Z" \/ (embed = "Y" /\ phase \in {"Active", "Whole File"})

\* the function at the control point getActiveViewOfType, called by a host
\* command for the Markdown view; "hostView" is the view of the host's
\* active leaf
getActiveViewOfTypeCall(m) ==
    IF Head(m.getActiveViewOfType) = "wrapper"
    THEN IF m.currentFocusedEmbed # "null" /\ HasEditor(m.currentFocusedEmbed)
         THEN m.currentFocusedEmbed
         ELSE IF m.originalGetActiveViewOfType = HostGetActiveViewOfType
              THEN "hostView"
              ELSE "undefined"
    ELSE "hostView"

\* the wrapper of executeCommand that calls the original dispatch also when
\* a handler has run
executeCommandCallBoth(m, id, args) ==
    LET wrapped      == Head(m.executeCommand) = "wrapper"
        focusedEmbed == m.currentFocusedEmbed
        handled      == /\ wrapped
                        /\ focusedEmbed # "null"
                        /\ id # NoId
                        /\ id \in RecognizedIds
                        /\ HasEditor(focusedEmbed)
        original     == IF wrapped THEN m.originalExecuteCommand = HostExecuteCommand
                        ELSE TRUE
        view         == IF original /\ id \in HostEditorIds
                        THEN getActiveViewOfTypeCall(m) ELSE "none"
    IN  [id |-> id, args |-> args, wrapped |-> wrapped, focused |-> focusedEmbed,
         ranOn |-> IF handled THEN focusedEmbed ELSE "none",
         original |-> original,
         originalId |-> IF original THEN id ELSE "none",
         originalArgs |-> IF original THEN args ELSE <<>>,
         view |-> view, wrote |-> {}]

\* a call of the function at the control point executeCommand: the wrapper
\* when it is installed, else the host's dispatch.  A handler returns false
\* only for an embed with no editor.  The record tells what ran where.
executeCommandCall(m, id, args) ==
    LET wrapped      == Head(m.executeCommand) = "wrapper"
        focusedEmbed == m.currentFocusedEmbed
        handled      == /\ wrapped
                        /\ focusedEmbed # "null"
                        /\ id # NoId
                        /\ id \in RecognizedIds
                        /\ HasEditor(focusedEmbed)
        original     == IF handled THEN FALSE
                        ELSE IF wrapped THEN m.originalExecuteCommand = HostExecuteCommand
                        ELSE TRUE
        view         == IF original /\ id \in HostEditorIds
                        THEN getActiveViewOfTypeCall(m) ELSE "none"
    IN  [id |-> id, args |-> args, wrapped |-> wrapped, focused |-> focusedEmbed,
         ranOn |-> IF handled THEN focusedEmbed ELSE "none",
         original |-> original,
         originalId |-> IF original THEN id ELSE "none",
         originalArgs |-> IF original THEN args ELSE <<>>,
         view |-> view, wrote |-> {}]

\* what a command does to the buffer of the view it runs on: the manager's
\* handlers for the line commands and the checklist command, and the host's
\* highlight command, which puts its markers around the text
CommandEdit(id, lines, cursor) ==
    IF id = "editor:swap-line-up" THEN swapLineUp(lines, cursor)
    ELSE IF id = "editor:swap-line-down" THEN swapLineDown(lines, cursor)
    ELSE IF id = "editor:duplicate-line" THEN duplicateLine(lines, cursor)
    ELSE IF id = "editor:delete-line" THEN deleteLine(lines, cursor)
    ELSE IF id = "editor:toggle-checklist-status" THEN toggleChecklist(lines, cursor)
    ELSE TypeEdit(lines, cursor, "==" \o lines[cursor + 1] \o "==")

\* a command is dispatched through the control point.  The surface it runs
\* on is the embed the handler ran on, or the view the host's command was
\* given; when that is Y, Y's buffer is edited and the session reacts.
DispatchCommand(ids, maxLineLen) ==
    \E id \in ids, args \in DispatchedArgs :
        LET call    == executeCommandCall(ManagerState, id, args)
            surface == IF call.ranOn # "none" THEN call.ranOn ELSE call.view
            edit    == CommandEdit(id, editorLines, cursorLine)
        IN  /\ IF surface = "Y"
               THEN /\ Len(edit.lines) <= MaxBufLines
                    /\ \A i \in 1..Len(edit.lines) : Len(edit.lines[i]) <= maxLineLen
                    /\ UserChange(edit)
                    /\ lastDispatch' = [call EXCEPT !.wrote = IF edit.notify THEN {"Y"}
                                                              ELSE {}]
               ELSE /\ lastChange' = NoChange
                    /\ lastDispatch' =
                          [call EXCEPT !.wrote = IF surface \in {"Z", "hostView"}
                                                 THEN {surface} ELSE {}]
                    /\ UNCHANGED <<phase, doc, editorLines, cursorLine,
                                   isProgrammaticUpdate, isSaving, originalHeader,
                                   headerLevel, lastCorrectedLineNumber,
                                   debouncePending, debounceCalls, saves, loads,
                                   flagTimers, typedInWrite>>
                    /\ UNCHANGED pureVars
                    /\ UNCHANGED loadVars
            /\ UNCHANGED managerVars
            /\ UNCHANGED <<domFocus, focusEvent>>

\* the commands of the Focus Router's specification, on the lines the user
\* types there
ExecuteCommand == DispatchCommand(DispatchedIds, MaxLineLen)

\* the second embed has loaded and registers
RegisterZ ==
    /\ "Z" \notin embedRegistry
    /\ AdoptManager(registerEmbed(ManagerState, "Z"))
    /\ lastChange' = NoChange
    /\ UNCHANGED <<phase, doc, editorLines, cursorLine, isProgrammaticUpdate, isSaving,
                   originalHeader, headerLevel, lastCorrectedLineNumber,
                   debouncePending, debounceCalls, saves, loads, flagTimers,
                   typedInWrite>>
    /\ lastDispatch' = NoDispatch
    /\ UNCHANGED <<domFocus, focusEvent>>
    /\ UNCHANGED pureVars
    /\ UNCHANGED loadVars

\* the second embed unloads: its onunload unregisters it, registered or not
UnregisterZ ==
    /\ AdoptManager(unregisterEmbed(ManagerState, "Z"))
    /\ lastChange' = NoChange
    /\ UNCHANGED <<phase, doc, editorLines, cursorLine, isProgrammaticUpdate, isSaving,
                   originalHeader, headerLevel, lastCorrectedLineNumber,
                   debouncePending, debounceCalls, saves, loads, flagTimers,
                   typedInWrite>>
    /\ lastDispatch' = NoDispatch
    /\ UNCHANGED <<domFocus, focusEvent>>
    /\ UNCHANGED pureVars
    /\ UNCHANGED loadVars

\* the plugin unloads and disposes of the manager
Dispose ==
    /\ AdoptManager(dispose(ManagerState))
    /\ lastChange' = NoChange
    /\ UNCHANGED <<phase, doc, editorLines, cursorLine, isProgrammaticUpdate, isSaving,
                   originalHeader, headerLevel, lastCorrectedLineNumber,
                   debouncePending, debounceCalls, saves, loads, flagTimers,
                   typedInWrite>>
    /\ lastDispatch' = NoDispatch
    /\ UNCHANGED <<domFocus, focusEvent>>
    /\ UNCHANGED pureVars
    /\ UNCHANGED loadVars

\* the focus leaves the element that has it: the document gets "focusout"
\* with the element that takes the focus as relatedTarget, or with null when
\* the focus leaves the window.  The listener runs when it is attached.
FocusOut ==
    /\ focusEvent = "none"
    /\ domFocus # "null"
    /\ \E relatedTarget \in (Elements \ {domFocus}) \cup {"null"} :
        /\ focusEvent' = IF relatedTarget = "null" THEN "none" ELSE relatedTarget
        /\ domFocus' = IF relatedTarget = "null" THEN "null" ELSE domFocus
        /\ AdoptManager(IF documentListeners.focusout > 0
                        THEN focusOut(ManagerState, relatedTarget)
                        ELSE ManagerState)
    /\ lastChange' = NoChange
    /\ UNCHANGED <<phase, doc, editorLines, cursorLine, isProgrammaticUpdate, isSaving,
                   originalHeader, headerLevel, lastCorrectedLineNumber,
                   debouncePending, debounceCalls, saves, loads, flagTimers,
                   typedInWrite>>
    /\ lastDispatch' = NoDispatch
    /\ UNCHANGED pureVars
    /\ UNCHANGED loadVars

\* an element takes the focus: the document gets "focusin" with that element
\* as target, right after the "focusout" of the element that had the focus,
\* or on its own when no element had it
FocusIn ==
    /\ focusEvent # "none" \/ domFocus = "null"
    /\ \E target \in Elements :
        /\ focusEvent # "none" => target = focusEvent
        /\ domFocus' = target
        /\ AdoptManager(IF documentListeners.focusin > 0
                        THEN focusIn(ManagerState, target)
                        ELSE ManagerState)
    /\ focusEvent' = "none"
    /\ lastChange' = NoChange
    /\ UNCHANGED <<phase, doc, editorLines, cursorLine, isProgrammaticUpdate, isSaving,
                   originalHeader, headerLevel, lastCorrectedLineNumber,
                   debouncePending, debounceCalls, saves, loads, flagTimers,
                   typedInWrite>>
    /\ lastDispatch' = NoDispatch
    /\ UNCHANGED pureVars
    /\ UNCHANGED loadVars

-----------------------------------------------------------------------------
(* The pure functions applied to bounded inputs *)

RECURSIVE LinesUpTo(_)
\* the sequences of 1..n lines
LinesUpTo(n) ==
    IF n = 0 THEN {}
    ELSE LinesUpTo(n - 1) \cup [1..n -> DocLines]

Documents == {Join(ls) : ls \in LinesUpTo(MaxDocLines)}

PureIdle ==
    /\ pureDoc = ""
    /\ pureText = ""
    /\ pureOp = "none"
    /\ pureOut = ""

PureInit ==
    /\ pureDoc \in Documents
    /\ pureText \in NewTexts
    /\ pureOp = "none"
    /\ pureOut = ""
    /\ SessionInit

ApplyExtract ==
    /\ pureOp = "none"
    /\ pureOp' = "extract"
    /\ pureOut' = extractSection(pureDoc, SectionName)
    /\ UNCHANGED <<pureDoc, pureText>>
    /\ UNCHANGED sessionVars
    /\ UNCHANGED loadVars
    /\ UNCHANGED routerVars

ApplyReplace ==
    /\ pureOp = "none"
    /\ pureOp' = "replace"
    /\ pureOut' = replaceSection(pureDoc, SectionName, pureText)
    /\ UNCHANGED <<pureDoc, pureText>>
    /\ UNCHANGED sessionVars
    /\ UNCHANGED loadVars
    /\ UNCHANGED routerVars

\* extractSection applied to the result of replaceSection
ApplyReExtract ==
    /\ pureOp = "replace"
    /\ pureOp' = "roundtrip"
    /\ pureOut' = extractSection(pureOut, SectionName)
    /\ UNCHANGED <<pureDoc, pureText>>
    /\ UNCHANGED sessionVars
    /\ UNCHANGED loadVars
    /\ UNCHANGED routerVars

\* the section names looked up in the documents
SpliceNames == {"A", "B", "C"}

\* a document and a section name; pureText holds the name
SpliceInit ==
    /\ pureDoc \in Documents
    /\ pureText \in SpliceNames
    /\ pureOp = "none"
    /\ pureOut = ""
    /\ SessionInit

\* what a save-back computes from a buffer that holds the projection as
\* loaded: the projection of the document spliced into the document
ApplySplice ==
    /\ pureOp = "none"
    /\ pureOp' = "splice"
    /\ pureOut' = replaceSection(pureDoc, pureText, extractSection(pureDoc, pureText))
    /\ UNCHANGED <<pureDoc, pureText>>
    /\ UNCHANGED sessionVars
    /\ UNCHANGED loadVars
    /\ UNCHANGED routerVars

-----------------------------------------------------------------------------
(* Specifications *)

\* the Section Locator/Splicer on every document and replacement text
PureNext == ApplyExtract \/ ApplyReplace \/ ApplyReExtract

SpecPure == PureInit /\ [][PureNext]_vars

\* the projection of every document spliced back into it
SpecSplice == SpliceInit /\ [][ApplySplice]_vars

Init == PureIdle /\ SessionInit

\* the Heading Guard: one session, the user's edits and the routed commands,
\* while no save-back has fired and the document is left alone.  The user
\* starts when the 50 ms timer of the initial load has fired.
GuardNext ==
    \/ OnloadSection
    \/ FlagTimerFires
    \/ ~isProgrammaticUpdate /\ MoveCursor
    \/ ~isProgrammaticUpdate /\ TypeLine(GuardTexts)
    \/ ~isProgrammaticUpdate /\ SplitLine
    \/ ~isProgrammaticUpdate /\ JoinLine
    \/ ~isProgrammaticUpdate /\ CommandSwapLineUp
    \/ ~isProgrammaticUpdate /\ CommandSwapLineDown
    \/ ~isProgrammaticUpdate /\ CommandDuplicateLine
    \/ ~isProgrammaticUpdate /\ CommandDeleteLine

SpecGuard == Init /\ [][GuardNext]_vars

\* save-back and reload: one session, the user typing on the body lines, the
\* debounce and the 50 ms timers, the session's reads and writes, and
\* another writer
Next ==
    \/ OnloadSection
    \/ FlagTimerFires
    \/ MoveCursor
    \/ cursorLine > 0 /\ TypeLine(SyncTexts)
    \/ SaveFires
    \/ SaveRead
    \/ SaveModify
    \/ SaveDone
    \/ ExternalWrite
    \/ LoadDone

Spec == Init /\ [][Next]_vars

\* the debounced save-back of one session whose document no other writer
\* touches, with the calls of the debounced save counted: the calls counted
\* in a state were made with no firing of the timer between them, each
\* within 750 ms of the one before
BurstInit ==
    PureIdle /\ SessionStart /\ RouterInit /\ debounceCalls = 0 /\ LoadDefault

BurstNext ==
    \/ OnloadSection
    \/ FlagTimerFires
    \/ MoveCursor
    \/ cursorLine > 0 /\ TypeLine(SyncTexts)
    \/ SaveFires
    \/ SaveRead
    \/ SaveModify
    \/ SaveDone
    \/ Onunload

SpecBurst == BurstInit /\ [][BurstNext]_vars

\* save-back and reload with a vault whose reads and writes may fail during
\* a save-back
FailNext ==
    \/ OnloadSection
    \/ FlagTimerFires
    \/ cursorLine > 0 /\ TypeLine(SyncTexts)
    \/ cursorLine = 0 /\ MoveCursor
    \/ SaveFires
    \/ SaveRead
    \/ SaveModify
    \/ SaveDone
    \/ SaveReadFails
    \/ SaveModifyFails
    \/ ExternalWrite
    \/ LoadDone

SpecFail == Init /\ [][FailNext]_vars

ReloadInProgress == loads.ext + loads.own > 0

\* a save-back is waiting for its read of the document
ReadPending == \E i \in 1..Len(saves) : saves[i].pc = "read"

\* what the host's scheduling gives a save-back: a timer that is started
\* fires, and a read or a write of the vault that is awaited completes.  The
\* last conjunct is weak fairness of SaveRead written out, SaveRead being
\* enabled exactly when a read is pending.
SaveBackScheduling ==
    /\ WF_vars(FlagTimerFires)
    /\ WF_vars(SaveFires)
    /\ WF_vars(SaveModify)
    /\ WF_vars(SaveDone)
    /\ ([]<>(~ReadPending) \/ []<><<SaveRead>>_vars)

\* the same for a reload: its read completes.  Weak fairness of LoadDone
\* written out, LoadDone being enabled exactly when a reload is in progress.
ReloadScheduling ==
    []<>(~ReloadInProgress) \/ []<><<LoadDone>>_vars

\* one session whose document no other writer touches, under that
\* scheduling; the vault's "modify" for the session's own write arrives
\* while the save-back is in flight and starts no reload.  The user starts
\* when the 50 ms timer of the initial load has fired.
SettleNext ==
    \/ OnloadSection
    \/ FlagTimerFires
    \/ cursorLine = 0 /\ MoveCursor
    \/ cursorLine > 0 /\ ~isProgrammaticUpdate /\ TypeLine(SyncTexts)
    \/ SaveFires
    \/ SaveRead
    \/ SaveModify
    \/ SaveDone

SpecSettle == Init /\ [][SettleNext]_vars /\ SaveBackScheduling

\* one session and another writer, under that scheduling; the user makes an
\* edit only when no save-back of an earlier edit is scheduled or in flight
\* and the suppression flag is clear
ReflectNext ==
    \/ OnloadSection
    \/ FlagTimerFires
    \/ cursorLine = 0 /\ MoveCursor
    \/ cursorLine > 0 /\ ~debouncePending /\ ~isSaving /\ ~isProgrammaticUpdate
           /\ TypeLine(SyncTexts)
    \/ SaveFires
    \/ SaveRead
    \/ SaveModify
    \/ SaveDone
    \/ ExternalWrite
    \/ LoadDone

SpecReflect == Init /\ [][ReflectNext]_vars /\ SaveBackScheduling /\ ReloadScheduling

\* notes that hold no heading of the section
PlaceholderDocs == {"# R\n## B\nz", "x\n"}

\* a session whose section is not in its note: the buffer is loaded with the
\* placeholder, and the user edits its lines below the first
PlaceholderInit ==
    /\ PureIdle /\ RouterInit /\ debounceCalls = -1 /\ LoadDefault
    /\ \E content \in PlaceholderDocs : SessionStartOn(content)

PlaceholderNext ==
    \/ OnloadSection
    \/ FlagTimerFires
    \/ MoveCursor
    \/ cursorLine > 0 /\ TypeLine(SyncTexts)
    \/ SaveFires
    \/ SaveRead
    \/ SaveModify
    \/ SaveDone

SpecPlaceholder == PlaceholderInit /\ [][PlaceholderNext]_vars

\* the Heading Guard across reloads: one session, the user typing headings
\* and text on the body lines while the suppression flag is clear, the
\* debounce and the 50 ms timers, the session's reads and writes, and
\* another writer
GuardReloadNext ==
    \/ OnloadSection
    \/ FlagTimerFires
    \/ cursorLine = 0 /\ MoveCursor
    \/ cursorLine > 0 /\ ~isProgrammaticUpdate /\ TypeLine(GuardTexts)
    \/ SaveFires
    \/ SaveRead
    \/ SaveModify
    \/ SaveDone
    \/ ExternalWrite
    \/ LoadDone

SpecGuardReload == Init /\ [][GuardReloadNext]_vars

\* the read of a reload that is awaited completes: it resolves or it rejects
ReadCompletes ==
    []<>(~ReloadInProgress) \/ []<><<LoadDone \/ LoadFails>>_vars

\* one session and another writer, with a vault whose reads may fail during
\* a reload, under that scheduling
ReloadFailNext ==
    \/ OnloadSection
    \/ FlagTimerFires
    \/ cursorLine = 0 /\ MoveCursor
    \/ cursorLine > 0 /\ TypeLine(SyncTexts)
    \/ SaveFires
    \/ SaveRead
    \/ SaveModify
    \/ SaveDone
    \/ ExternalWrite
    \/ LoadDone
    \/ LoadFails

SpecReloadFail == Init /\ [][ReloadFailNext]_vars /\ SaveBackScheduling /\ ReadCompletes

\* loading: an embed constructed with any of the link tokens, in a host that
\* opens and reads the file or fails to, and what follows the load
LoadInit ==
    /\ PureIdle /\ SessionStart /\ RouterInit /\ debounceCalls = -1
    /\ rawLink \in RawLinks
    /\ host \in HostOutcomes
    /\ rendered = "empty"

LoadNext ==
    \/ OnloadSection
    \/ OnloadFile
    \/ OnloadError
    \/ FlagTimerFires
    \/ MoveCursor
    \/ ExternalWrite
    \/ LoadDone
    \/ WriteUnwatched

SpecLoad == LoadInit /\ [][LoadNext]_vars

\* the Focus Router: the session Y and a second embed Z register and
\* unregister, the focus moves between them and the rest of the window, and
\* commands are dispatched, all within the 50 ms after Y's load.  The two
\* events of a focus transfer are dispatched one after the other with nothing
\* between them.
RouterNext ==
    \/ focusEvent = "none" /\ OnloadSection
    \/ focusEvent = "none" /\ Onunload
    \/ focusEvent = "none" /\ RegisterZ
    \/ focusEvent = "none" /\ UnregisterZ
    \/ focusEvent = "none" /\ Dispose
    \/ focusEvent = "none" /\ ExecuteCommand
    \/ FocusOut
    \/ FocusIn

SpecRouter == Init /\ [][RouterNext]_vars

\* the notes of the sessions the commands are tried on: a section with
\* plain, indented, checked and unchecked lines
CommandDocs ==
    {"# R\n## A\nbuy milk\n  - [X] b\n## B",
     "## A\n- [x] c\n\td"}

\* the commands with a handler in the manager that are dispatched
CommandIds ==
    {"editor:toggle-checklist-status", "editor:swap-line-up", "editor:swap-line-down",
     "editor:delete-line"}

\* longest line a command may leave
MaxCommandLineLen == 16

\* the routed commands: the session Y on one of the notes, the focus moving
\* from outside the embeds into Y, where it stays, the cursor moving, and
\* the commands dispatched through the host's control point once the 50 ms
\* timer of the load has fired
CommandInit ==
    /\ PureIdle /\ RouterInit /\ debounceCalls = -1 /\ LoadDefault
    /\ \E content \in CommandDocs : SessionStartOn(content)

CommandNext ==
    \/ focusEvent = "none" /\ OnloadSection
    \/ focusEvent = "none" /\ FlagTimerFires
    \/ focusEvent = "none" /\ MoveCursor
    \/ focusEvent = "none" /\ ~isProgrammaticUpdate
           /\ DispatchCommand(CommandIds, MaxCommandLineLen)
    \/ domFocus = "outside" /\ phase = "Active" /\ FocusOut
    \/ focusEvent = "Y" /\ FocusIn

SpecCommand == CommandInit /\ [][CommandNext]_vars

-----------------------------------------------------------------------------
(* Properties of the Section Locator/Splicer (under SpecPure) *)

PureLines == Split(pureDoc)

NewLines == Split(pureText)

\* the heading depth of a line: the number of "#" it starts with
HeadingDepth(line) == LeadingHashes(line)

\* the indices of the heading lines for the section name
HeadingsOfSection(lines) ==
    {i \in 0..(Len(lines) - 1) : headerRegex(lines[i + 1], SectionName)}

\* the first of a non-empty set of indices
First(indices) == CHOOSE i \in indices : \A j \in indices : i <= j

\* the later lines whose heading depth is at most the section's
LaterBoundaries(lines, start) ==
    LET depth == HeadingDepth(lines[start + 1])
    IN  {j \in (start + 1)..(Len(lines) - 1) : HeadingDepth(lines[j + 1]) \in 1..depth}

\* the section range [start, end) of a document in which the section is found
SectionRange(lines) ==
    LET start == First(HeadingsOfSection(lines))
        later == LaterBoundaries(lines, start)
    IN  [start |-> start,
         end   |-> IF later = {} THEN Len(lines) ELSE First(later),
         depth |-> HeadingDepth(lines[start + 1])]

\* the replacement text is one section for the name: its first line is a
\* heading line for the name and no later line has a heading depth of at
\* most the section's
TextIsOneSection(text, depth) ==
    /\ headerRegex(text[1], SectionName)
    /\ \A k \in 2..Len(text) : HeadingDepth(text[k]) \notin 1..depth

\* C1 as the claim states it: when the section name occurs exactly once as a
\* heading of the document and the first line of the replacement text has the
\* heading depth of the section's heading, extracting the section from the
\* result of replaceSection gives the replacement text.
C1_RoundTripAnyText ==
    pureOp = "roundtrip" =>
        LET lines    == PureLines
            headings == HeadingsOfSection(lines)
        IN  (/\ Cardinality(headings) = 1
             /\ HeadingDepth(NewLines[1]) = HeadingDepth(lines[First(headings) + 1]))
            => pureOut = pureText

\* C1, amended: the round trip holds when, in addition, the replacement text
\* is itself one section for the name: its first line is a heading line for
\* the name and none of its later lines starts with 1..depth "#" characters.
C1_RoundTrip ==
    pureOp = "roundtrip" =>
        LET lines    == PureLines
            text     == NewLines
            headings == HeadingsOfSection(lines)
        IN  (/\ Cardinality(headings) = 1
             /\ HeadingDepth(text[1]) = HeadingDepth(lines[First(headings) + 1])
             /\ TextIsOneSection(text, HeadingDepth(lines[First(headings) + 1])))
            => pureOut = pureText

C1_Witness ==
    /\ pureOp = "roundtrip"
    /\ pureText = "## A\nx\n### C"
    /\ pureOut = pureText
    /\ LET lines    == PureLines
           headings == HeadingsOfSection(lines)
       IN  /\ Cardinality(headings) = 1
           /\ TextIsOneSection(NewLines, SectionRange(lines).depth)
           /\ HeadingDepth(NewLines[1]) = SectionRange(lines).depth
           /\ SectionRange(lines).start > 0
           /\ SectionRange(lines).end < Len(lines)

\* C2: when the section is in the document, replaceSection leaves every line
\* before the section's first line and every line from the section's end on
\* in the result, with the same text and in the same order.
C2_OutsideUntouched ==
    pureOp = "replace" =>
        LET lines == PureLines
        IN  HeadingsOfSection(lines) # {} =>
                LET r     == SectionRange(lines)
                    out   == Split(pureOut)
                    nTail == Len(lines) - r.end
                IN  /\ Len(out) >= r.start + nTail
                    /\ SubSeq(out, 1, r.start) = SubSeq(lines, 1, r.start)
                    /\ SubSeq(out, Len(out) - nTail + 1, Len(out))
                           = SubSeq(lines, r.end + 1, Len(lines))

C2_Witness ==
    /\ pureOp = "replace"
    /\ pureText = "## A\n# Z"
    /\ pureOut # pureDoc
    /\ LET lines == PureLines
       IN  /\ HeadingsOfSection(lines) # {}
           /\ SectionRange(lines).start > 0
           /\ SectionRange(lines).end < Len(lines)
           /\ SectionRange(lines).end > SectionRange(lines).start + 1

\* C3: when the first heading line for the name is at line i with depth d,
\* extractSection returns the lines from i up to the first later line whose
\* heading depth is at most d, or up to the end of the document, and
\* replaceSection replaces exactly that range.
C3_SectionRange ==
    pureOp \in {"extract", "replace"} =>
        LET lines == PureLines
        IN  HeadingsOfSection(lines) # {} =>
                LET r == SectionRange(lines)
                IN  IF pureOp = "extract"
                    THEN pureOut = Join(SubSeq(lines, r.start + 1, r.end))
                    ELSE pureOut = Join(SubSeq(lines, 1, r.start) \o NewLines
                                        \o SubSeq(lines, r.end + 1, Len(lines)))

C3_Witness ==
    /\ pureDoc = "# R\n## A\nx\n## B"
    /\ pureOp = "extract"
    /\ pureOut = "## A\nx"

\* s with the white space at its end removed
StripEnd(s) ==
    IF AllIn(s, 1, Len(s), WhiteSpace) THEN ""
    ELSE SubSeq(s, 1, CHOOSE b \in 1..Len(s) :
                          Ch(s, b) \notin WhiteSpace /\ AllIn(s, b + 1, Len(s), WhiteSpace))

\* what the append leaves for a document d and a text x
Appended(d, x) ==
    IF Trim(d) = "" THEN Trim(x)
    ELSE IF Trim(x) = "" THEN Trim(d)
    ELSE Trim(d) \o "\n\n" \o StripEnd(x)

\* C19 as claimed: for a document with no heading line for the section,
\* replaceSection returns the document's text unchanged, then one blank
\* line, then the new text
C19_AppendKeepsDocument ==
    (pureOp = "replace" /\ HeadingsOfSection(PureLines) = {})
        => pureOut = pureDoc \o "\n\n" \o pureText

\* C19 amended: for a document with no heading line for the section,
\* replaceSection returns the document with the white space at its start
\* and end removed, then one blank line, then the new text with the white
\* space at its end removed; a document or a text of white space only is
\* left out together with the blank line.  The document comes back
\* unchanged before the blank line exactly when it has text and no white
\* space at its start or end.
C19_AppendTrimmed ==
    (pureOp = "replace" /\ HeadingsOfSection(PureLines) = {})
        => /\ pureOut = Appended(pureDoc, pureText)
           /\ (pureDoc = Trim(pureDoc) /\ pureDoc # "" /\ pureText = StripEnd(pureText)
                   /\ pureText # "")
                 => pureOut = pureDoc \o "\n\n" \o pureText

\* a section text was appended to a document that has no such section
C19_Witness ==
    /\ pureOp = "replace"
    /\ pureDoc = "# R\nx"
    /\ pureText = "## A\nx"
    /\ pureOut = "# R\nx\n\n## A\nx"

-----------------------------------------------------------------------------
(* Properties of the Heading Guard (under SpecGuard) *)

\* C4 as the claim states it: in every state of an Active session (each
\* state is one between two reactions) line 0 of the buffer is the original
\* heading line.
C4_HeadingLineReadOnly ==
    phase = "Active" => editorLines[1] = originalHeader

\* the last change notification was handled by the guard
ChangeHandled == lastChange.kind = "change" /\ lastChange.handled

\* the text of the changed line as the handler found it
ChangedText == lastChange.lines[lastChange.line + 1]

\* C5: when a handled change notification finds the changed line to be line 0
\* with a text other than the original heading line, then after the reaction
\* line 0 is the original heading line, every other line is as the edit left
\* it, and nothing else was done: the last-corrected marker and the armed
\* state of the debounced save are as before and the suppression flag is clear.
C5_HeadingReverted ==
    (ChangeHandled /\ lastChange.line = 0 /\ ChangedText # originalHeader)
    => /\ editorLines = [lastChange.lines EXCEPT ![1] = originalHeader]
       /\ cursorLine = 0
       /\ lastCorrectedLineNumber = lastChange.last
       /\ debouncePending = lastChange.pending
       /\ ~isProgrammaticUpdate

C5_Witness ==
    /\ ChangeHandled
    /\ lastChange.line = 0
    /\ ChangedText # originalHeader
    /\ lastChange.last = 1
    /\ Len(editorLines) > 1
    /\ editorLines[1] = "## A"

\* the changed line is a body line that holds a heading
BodyHeadingChanged ==
    ChangeHandled /\ lastChange.line > 0 /\ TrimmedStartsWithHash(ChangedText)

\* the changed line now starts with exactly depth + 1 "#", the rest of the
\* buffer is as the edit left it, and the line is recorded as corrected
NormalizedAndRecorded ==
    /\ editorLines =
         [lastChange.lines EXCEPT ![lastChange.line + 1] =
             Repeat("#", headerLevel + 1)
                 \o SubSeq(ChangedText, LeadingHashes(ChangedText) + 1, Len(ChangedText))]
    /\ LeadingHashes(editorLines[lastChange.line + 1]) = headerLevel + 1
    /\ lastCorrectedLineNumber = lastChange.line

\* C6 as the claim states it: a heading typed on a body line with at most
\* depth "#" is rewritten to depth + 1 "#" and its line recorded, and one
\* with more is left untouched.
C6_NormalizedAlways ==
    BodyHeadingChanged
    => IF LeadingHashes(ChangedText) <= headerLevel
       THEN NormalizedAndRecorded
       ELSE editorLines = lastChange.lines

\* C6, amended: a heading typed on a body line with at most depth "#" is
\* rewritten to depth + 1 "#" and its line recorded unless that line is the
\* most recently auto-corrected line (its marker is then removed instead);
\* a heading with more than depth "#" is left untouched.
C6_Normalized ==
    BodyHeadingChanged
    => IF LeadingHashes(ChangedText) <= headerLevel
       THEN lastChange.line # lastChange.last => NormalizedAndRecorded
       ELSE editorLines = lastChange.lines

C6_Witness ==
    /\ BodyHeadingChanged
    /\ headerLevel = 2
    /\ ChangedText = "## Z"
    /\ lastChange.line # lastChange.last
    /\ editorLines[lastChange.line + 1] = "### Z"

\* the changed line is the line recorded as last corrected, a body line,
\* and the handler finds it with fewer than depth + 1 "#" at its start
BackspacedMarker ==
    /\ ChangeHandled
    /\ lastChange.line > 0
    /\ lastChange.line = lastChange.last
    /\ LeadingHashes(ChangedText) < headerLevel + 1

\* the handler finds the changed line with no heading on it, or with a
\* heading of more than depth "#"
NoShallowHeading ==
    \/ ~TrimmedStartsWithHash(ChangedText)
    \/ LeadingHashes(ChangedText) > headerLevel

\* the "#" left at the start of the changed line are removed, the rest of
\* the buffer is as the edit left it, no "#" is put back and no line is
\* recorded as last corrected
MarkerRemoved ==
    /\ editorLines =
          [lastChange.lines EXCEPT ![lastChange.line + 1] =
             SubSeq(ChangedText, LeadingHashes(ChangedText) + 1, Len(ChangedText))]
    /\ lastCorrectedLineNumber = -1

\* C28 as claimed: a change on the last-corrected body line that leaves
\* fewer than depth + 1 "#" has the marker removed and the record cleared,
\* and a handled change on any line that holds no heading or a deeper one
\* clears the record
C28_MarkerBackspacedAnyLine ==
    /\ BackspacedMarker => MarkerRemoved
    /\ (ChangeHandled /\ NoShallowHeading) => lastCorrectedLineNumber = -1

\* C28 amended: as claimed for the last-corrected body line; the record is
\* cleared by a handled change on a body line that holds no heading or a
\* deeper one, and by one on line 0 that leaves the heading line as it was,
\* while a change of line 0 that the guard reverts leaves the record as it
\* is
C28_MarkerBackspaced ==
    /\ BackspacedMarker => MarkerRemoved
    /\ (ChangeHandled /\ NoShallowHeading /\ lastChange.line > 0)
         => (lastCorrectedLineNumber = -1 /\ editorLines = lastChange.lines)
    /\ (ChangeHandled /\ lastChange.line = 0)
         => lastCorrectedLineNumber =
               (IF ChangedText = originalHeader THEN -1 ELSE lastChange.last)

\* the user has backspaced into the marker the guard had put on line 1, and
\* the guard has removed what was left of it
C28_Witness ==
    /\ BackspacedMarker
    /\ lastChange.line = 1
    /\ ChangedText = "## Z"
    /\ editorLines[2] = " Z"
    /\ lastCorrectedLineNumber = -1

\* C29: in every state of an Active session (each is one after a reaction
\* of the guard) no body line of the buffer starts with one to depth "#"
C29_BufferOneSection ==
    phase = "Active" =>
        \A i \in 2..Len(editorLines) :
            LeadingHashes(editorLines[i]) \notin 1..headerLevel

-----------------------------------------------------------------------------
(* Properties of save-back and reload (under Spec) *)


\* C7: no reload is ever started by the change notification of the
\* session's own save-back write.
C7_NoReloadFromOwnSave == loads.own = 0

\* the own write is done and its notification has been handled
C7_Witness ==
    /\ Len(saves) = 1
    /\ saves[1].pc = "modified"
    /\ doc = saves[1].updatedFileContent
    /\ loads.own = 0

\* C8: the buffer as a user edit left it while the session's own write was
\* in progress stays the buffer through that write and its notification
\* (until the user edits again or a reload caused by another writer ends).
C8_KeystrokeKept ==
    typedInWrite # <<>> => editorLines = typedInWrite[1]

\* the write is over, and the buffer holds what the document does not
C8_Witness ==
    /\ typedInWrite # <<>>
    /\ saves = <<>>
    /\ ~isSaving
    /\ editorLines = typedInWrite[1]
    /\ Join(editorLines) # extractSection(doc, SectionName)

\* C9: at most one save-back is in flight, and a trigger that fires while
\* one is in flight starts no read, writes nothing and is not kept for later.
C9_OneSaveInFlight ==
    [][/\ Len(saves') <= 1
       /\ (debouncePending /\ ~debouncePending' /\ isSaving)
          => (saves' = saves /\ doc' = doc /\ isSaving')]_vars

C9_Witness ==
    /\ lastChange.kind = "dropped"
    /\ Len(saves) = 1
    /\ ~debouncePending

\* C10 as the claim states it: a reload in progress and a save-back in
\* flight never coexist in one session.
C10_ReloadSaveExclusive == ~(ReloadInProgress /\ isSaving)

-----------------------------------------------------------------------------
(* Properties of save-back and reload, continued (under Spec) *)

\* the lines of a document outside the section: those before its heading
\* line and those from its end on
OutsideSection(content) ==
    LET lines == Split(content)
    IN  IF HeadingsOfSection(lines) = {} THEN <<lines, <<>>>>
        ELSE LET r == SectionRange(lines)
             IN  <<SubSeq(lines, 1, r.start), SubSeq(lines, r.end + 1, Len(lines))>>

\* the step in which the save-back i writes the document
SaveWrites(i) ==
    /\ i \in 1..Len(saves)
    /\ saves[i].pc = "modify"
    /\ Len(saves') = Len(saves)
    /\ saves'[i].pc = "modified"

\* C11 as the claim states it: the lines outside the section that the
\* document has just before the write of a save-back (every change made at
\* any moment before the write) are the lines outside the section after it.
C11_NoClobberBeforeWrite ==
    [][\A i \in 1..Len(saves) :
          SaveWrites(i) => OutsideSection(doc') = OutsideSection(doc)]_vars

\* C11, amended: the lines outside the section that the document had when
\* the save-back read it (every change made before the read) are the lines
\* outside the section after the write.
C11_NoClobberBeforeRead ==
    [][\A i \in 1..Len(saves) :
          SaveWrites(i) =>
              OutsideSection(doc') = OutsideSection(saves[i].currentFileContent)]_vars

\* a save-back has written the user's edit into a document to which another
\* writer had added a line after the section, and the line is there
C11_Witness ==
    \E i \in 1..Len(saves) :
        /\ saves[i].pc = "modified"
        /\ saves[i].currentFileContent = "# R\n## A\nx\n## B\ny"
        /\ saves[i].newSectionContent = "## A\nk"
        /\ doc = "# R\n## A\nk\n## B\ny"

\* a step in which another writer changes the document (the write of a
\* save-back also moves that save-back on)
ExternalChange == doc' # doc /\ saves' = saves

\* a step in which a run of loadSection completes
ReloadCompletes == loads'.ext + loads'.own < loads.ext + loads.own

\* C12: a change notification that arrives while isSaving is clear starts a
\* run of loadSection under the suppression flag, and when a run of
\* loadSection completes the buffer is the section extracted from the
\* document as it then is, originalHeader is the buffer's first line and
\* headerLevel is its heading depth.
C12_ReloadOnExternalChange ==
    [][/\ (ExternalChange /\ ~isSaving)
           => (/\ loads'.ext = loads.ext + 1
               /\ isProgrammaticUpdate')
       /\ ReloadCompletes
           => (/\ editorLines' = Split(extractSection(doc', SectionName))
               /\ originalHeader' = editorLines'[1]
               /\ headerLevel' = HeadingDepth(editorLines'[1]))]_vars

\* a reload has completed on a document in which another writer changed the
\* body and the depth of the section
C12_Witness ==
    /\ doc = "# R\n### A\ne\n## B"
    /\ loads.ext + loads.own = 0
    /\ flagTimers > 0
    /\ editorLines = <<"### A", "e">>
    /\ originalHeader = "### A"
    /\ headerLevel = 3

-----------------------------------------------------------------------------
(* Properties of the debounced save-back (under SpecBurst) *)

\* a step in which the debounced save is called
SaveCalled == debounceCalls' > debounceCalls

\* a step in which a run of the save-back body starts
SaveStarts == Len(saves') > Len(saves)

C14_TeardownCancelsSave ==
    [][phase' = "Torn Down"
          => (~debouncePending' /\ (phase = "Torn Down" => ~SaveStarts))]_vars

\* the session was torn down with an edit of the buffer waiting for the
\* debounce timer: the timer is cancelled and the document is as it was
C14_Witness ==
    /\ phase = "Torn Down"
    /\ lastChange.kind = "cancelled"
    /\ editorLines = <<"## A", "k">>
    /\ doc = InitialDoc
    /\ saves = <<>>
    /\ ~debouncePending

-----------------------------------------------------------------------------
(* Properties of loading (under SpecLoad) *)

\* the failures of loading: the link token with an empty path part before
\* the alias, the target that is no Markdown note of the vault, the source
\* note with no section, the host giving no Markdown view or throwing
LoadingFails(raw, h) ==
    LET target == resolveLink(raw)
    IN  \/ target.result = "null"
        \/ target.file = "null"
        \/ target.file = SourcePath /\ target.section = "null"
        \/ h \in {"otherView", "openThrows"}
        \/ h = "readThrows" /\ target.section # "null"

\* C15: an embed whose loading fails never becomes Active or shows an
\* editor; once onload has returned it shows one of the error messages, is
\* not registered with the manager, leaves the host's control points alone
\* and has no timer, save or reload of its own, whatever is written to the
\* note afterwards
C15_LoadFailureContained ==
    LoadingFails(rawLink, host) =>
        /\ phase \in {"Loading", "Failed"}
        /\ phase = "Failed" =>
              /\ rendered \in ErrorMessages
              /\ embedRegistry = {}
              /\ executeCommand = HostExecuteCommand
              /\ getActiveViewOfType = HostGetActiveViewOfType
              /\ documentListeners = [focusin |-> 0, focusout |-> 0]
              /\ ~debouncePending
              /\ saves = <<>>
              /\ loads = [ext |-> 0, own |-> 0]
              /\ flagTimers = 0

\* vault.read threw during the load, the error message is shown, and the
\* note has been written since with no reaction of the embed
C15_Witness ==
    /\ phase = "Failed"
    /\ host = "readThrows"
    /\ rendered = "Error loading embedded note."
    /\ doc # InitialDoc

\* the section part of the link token: what follows the first "#" of the
\* part before the alias
SectionPart(raw) ==
    LET linkPath == SplitFirst(raw, "|")
    IN  IF IndexOf(linkPath, "#") < 0 THEN ""
        ELSE SliceFrom(linkPath, IndexOf(linkPath, "#") + 1)

-----------------------------------------------------------------------------
(* Properties of the Focus Router (under SpecRouter) *)

\* the last step dispatched a command through the installed wrapper
Dispatched == lastDispatch.id # "none" /\ lastDispatch.wrapped

\* the router handles the command: a session is focused and the id is one
\* of the fifteen
Routed == lastDispatch.focused # "null" /\ lastDispatch.id \in RecognizedIds

\* C16 as claimed: a command dispatched through the wrapper with a session
\* focused and a recognized id runs on that session and the original
\* dispatch is not invoked; any other command goes to the original dispatch
\* with the same id and arguments, and the dispatch writes to no embed's
\* buffer
C16_CommandRouting ==
    Dispatched =>
        IF Routed
        THEN /\ lastDispatch.ranOn = lastDispatch.focused
             /\ ~lastDispatch.original
        ELSE /\ lastDispatch.ranOn = "none"
             /\ lastDispatch.original
             /\ lastDispatch.originalId = lastDispatch.id
             /\ lastDispatch.originalArgs = lastDispatch.args
             /\ lastDispatch.wrote \cap Embeds = {}

\* C16 amended: as claimed, but for a command that falls through to the
\* original dispatch the router runs no handler, and no embed's buffer is
\* written when no session is focused; with a session focused the host's
\* command may be given that session's view by the wrapper of
\* getActiveViewOfType and write to it, and to no other embed
C16_CommandRoutingAmended ==
    Dispatched =>
        IF Routed
        THEN /\ lastDispatch.ranOn = lastDispatch.focused
             /\ ~lastDispatch.original
             /\ lastDispatch.wrote \subseteq {lastDispatch.focused}
        ELSE /\ lastDispatch.ranOn = "none"
             /\ lastDispatch.original
             /\ lastDispatch.originalId = lastDispatch.id
             /\ lastDispatch.originalArgs = lastDispatch.args
             /\ lastDispatch.focused = "null" => lastDispatch.wrote \cap Embeds = {}
             /\ lastDispatch.wrote \cap Embeds \subseteq {lastDispatch.focused}

\* delete-line was dispatched with Y focused and changed Y's buffer
C16_Witness ==
    /\ Dispatched
    /\ lastDispatch.id = "editor:delete-line"
    /\ lastDispatch.ranOn = "Y"
    /\ lastDispatch.wrote = {"Y"}
    /\ ~lastDispatch.original

\* both interceptions and both listeners are in place, each once
HooksInstalled ==
    /\ executeCommand = Wrapper(HostExecuteCommand)
    /\ getActiveViewOfType = Wrapper(HostGetActiveViewOfType)
    /\ originalExecuteCommand = HostExecuteCommand
    /\ originalGetActiveViewOfType = HostGetActiveViewOfType
    /\ documentListeners = [focusin |-> 1, focusout |-> 1]

\* the host's control points hold the host's functions and the document has
\* none of the manager's listeners
HooksRemoved ==
    /\ executeCommand = HostExecuteCommand
    /\ getActiveViewOfType = HostGetActiveViewOfType
    /\ originalExecuteCommand = Null
    /\ originalGetActiveViewOfType = Null
    /\ documentListeners = [focusin |-> 0, focusout |-> 0]

\* C17: after any sequence of registrations, unregistrations and dispose,
\* the interceptions are installed, once, exactly when an embed is
\* registered, and with no embed registered the two control points are the
\* host's original functions
C17_HooksExact ==
    IF embedRegistry # {} THEN HooksInstalled ELSE HooksRemoved

\* Y has registered and unloaded, the focus has moved into Z meanwhile, and
\* no embed is registered any more
C17_Witness ==
    /\ phase = "Torn Down"
    /\ domFocus = "Z"
    /\ embedRegistry = {}
    /\ executeCommand = HostExecuteCommand

\* the step is the "focusin" event on the element that takes the focus
FocusInStep == domFocus' # domFocus /\ domFocus' # "null"

\* the step is the "focusout" event
FocusOutStep ==
    focusEvent = "none" /\ (focusEvent' # "none" \/ (domFocus # "null" /\ domFocus' = "null"))

\* C18: a focus-in inside a registered embed makes it the focused session;
\* a focus-out whose new target (the pending focus-in's element, or none)
\* is inside no registered embed clears the focused session; and the
\* focus-in that ends a transfer from one registered embed to another
\* leaves the other as the focused session
C18_FocusTracking ==
    [][/\ (FocusInStep /\ domFocus' \in embedRegistry)
            => currentFocusedEmbed' = domFocus'
       /\ (FocusOutStep /\ focusEvent' \notin embedRegistry)
            => currentFocusedEmbed' = "null"
       /\ (FocusInStep /\ focusEvent # "none" /\ domFocus \in embedRegistry
                       /\ domFocus' \in embedRegistry)
            => (currentFocusedEmbed' = domFocus' /\ currentFocusedEmbed' # domFocus)]_vars

\* in the middle of a transfer from Y to Z, both registered: the focus-out
\* of Y has been dispatched, Y is still the focused session, and the
\* focus-in of Z is next
C18_Witness ==
    /\ {"Y", "Z"} \subseteq embedRegistry
    /\ domFocus = "Y"
    /\ focusEvent = "Z"
    /\ currentFocusedEmbed = "Y"

-----------------------------------------------------------------------------
(* Properties of the resolver (under SpecLoad) *)

\* the path part of the link token: what precedes the first "#" of the part
\* before the alias
PathPart(raw) ==
    LET linkPath == SplitFirst(raw, "|")
    IN  IF IndexOf(linkPath, "#") < 0 THEN linkPath
        ELSE SliceTo(linkPath, IndexOf(linkPath, "#"))

\* the link token with another path part
WithPath(raw, path) == path \o SliceFrom(raw, Len(PathPart(raw)))

\* a path that resolves to no file of the vault
MissingPath == "M"

-----------------------------------------------------------------------------
(* Properties of the routed commands (under SpecCommand) *)

\* the step dispatches the command id and the manager's handler runs it on Y
RoutedToY(id) ==
    /\ lastDispatch'.id = id
    /\ lastDispatch'.ranOn = "Y"
    /\ (lastDispatch' # lastDispatch \/ lastChange'.kind = "change")

\* the line with its checklist marker toggled: an unchecked marker after the
\* indentation becomes checked, a checked one unchecked, and a line with
\* neither gets an unchecked marker and a space between its indentation and
\* the rest
Toggled(line) ==
    LET n      == IndentLength(line)
        indent == SubSeq(line, 1, n)
        rest   == SubSeq(line, n + 1, Len(line))
        marker == IF Len(rest) >= 5 THEN SubSeq(rest, 1, 5) ELSE ""
        after  == SubSeq(rest, 6, Len(rest))
    IN  IF marker = "- [ ]" THEN indent \o "- [x]" \o after
        ELSE IF marker \in {"- [x]", "- [X]"} THEN indent \o "- [ ]" \o after
        ELSE indent \o "- [ ] " \o rest

Exchanged(lines, i) ==
    [lines EXCEPT ![i + 1] = lines[i + 2], ![i + 2] = lines[i + 1]]

\* C23: when swap-line-up has been dispatched with Y focused and the cursor
\* below the first line, the current line and the one above have exchanged
\* their texts, every other line is as before and the cursor is one line
\* up; likewise downwards for swap-line-down above the last line; on the
\* first line (up) and the last line (down) the buffer is as before
C23_SwapLines ==
    [][/\ RoutedToY("editor:swap-line-up")
            => IF cursorLine > 0
               THEN /\ editorLines' = Exchanged(editorLines, cursorLine - 1)
                    /\ cursorLine' = cursorLine - 1
               ELSE editorLines' = editorLines
       /\ RoutedToY("editor:swap-line-down")
            => IF cursorLine < Len(editorLines) - 1
               THEN /\ editorLines' = Exchanged(editorLines, cursorLine)
                    /\ cursorLine' = cursorLine + 1
               ELSE editorLines' = editorLines]_vars

\* C24: when delete-line has been dispatched with Y focused on a buffer of
\* more than one line, the buffer is the old one without the current line
C24_DeleteLine ==
    [][(RoutedToY("editor:delete-line") /\ Len(editorLines) > 1)
          => editorLines' = RemoveAt(editorLines, cursorLine + 1)]_vars

-----------------------------------------------------------------------------
(* Properties of overlapping reloads (under Spec) *)

\* the step in which a reload overwrites the buffer
ReloadOverwrites == loads'.ext + loads'.own < loads.ext + loads.own

\* C27: the suppression flag is set at the moment a reload overwrites the
\* buffer, so the overwrite starts neither the Heading Guard nor a save-back.
C27_ReloadSuppressed ==
    [][ReloadOverwrites => isProgrammaticUpdate]_vars

-----------------------------------------------------------------------------
(* Properties of convergence (under SpecSettle and SpecReflect) *)

\* the step in which the user edits the buffer
UserEdits == lastChange'.kind = "change"

\* the step in which another writer changes the document
ExternalWrites == doc' # doc /\ saves' = saves

\* the document's section is the buffer of the session, once it is Active
InSync == phase = "Active" => extractSection(doc, SectionName) = Join(editorLines)

\* C25: when the user stops editing, and no other writer touches the
\* document, the document's section eventually equals the buffer for good.
C25_EventualSaveBack ==
    <>[][~UserEdits]_vars => <>[]InSync

\* C26: when the other writers have made their last change and the user
\* makes no further edit, the buffer eventually equals the section of the
\* document's final content for good.
C26_EventualReflection ==
    <>[][~UserEdits /\ ~ExternalWrites]_vars
        => <>[](phase # "Active" \/ Join(editorLines) = extractSection(doc, SectionName))

-----------------------------------------------------------------------------
(* Properties of a failing save-back (under SpecFail) *)

\* C30: when the read or the write of a save-back has failed, the
\* save-in-flight flag is clear again
C30_SaveFailureClearsFlag ==
    lastChange.kind = "save failed" => ~isSaving

-----------------------------------------------------------------------------
(* Properties of a failing reload (under SpecReloadFail) *)

\* C31: the suppression flag never stays set for good: when the other
\* writers have made their last change, and so the last reload has started,
\* states in which the flag is clear keep following.
C31_FlagClearsAgain ==
    <>[][~ExternalWrites]_vars => []<>(~isProgrammaticUpdate)

-----------------------------------------------------------------------------
(* Properties of the focused session (under SpecRouter) *)

\* C32: the currently focused session is none or a session that is
\* registered at that moment, and a command that is routed to the session Y
\* is not routed to it after its teardown.
C32_FocusedIsRegistered ==
    /\ currentFocusedEmbed = "null" \/ currentFocusedEmbed \in embedRegistry
    /\ lastDispatch.ranOn = "Y" => phase \notin {"Torn Down", "Loading", "Failed"}

\* the session Y has been torn down, and so unregistered, with the focus
\* inside it, while the second embed stays registered and the listeners stay
C32_Witness ==
    /\ phase = "Torn Down"
    /\ domFocus = "Y"
    /\ "Y" \notin embedRegistry
    /\ "Z" \in embedRegistry
    /\ currentFocusedEmbed = "null"
    /\ focusInListener

-----------------------------------------------------------------------------
(* Properties of a session whose section was not found (under SpecPlaceholder) *)

\* the lines of the placeholder: its heading and its notice
PlaceholderLines == {"# " \o SectionName, "*Section not found.*"}

\* C33: the document of a session that was loaded with the placeholder holds
\* neither the placeholder's heading nor its notice.
C33_PlaceholderNotWritten ==
    \A i \in 1..Len(Split(doc)) : Split(doc)[i] \notin PlaceholderLines

-----------------------------------------------------------------------------
(* Properties of splicing the projection back (under SpecSplice) *)

\* C34 as the claim states it: for every document and section name,
\* replaceSection of the document's own projection returns the document.
C34_SpliceIdentityAnyDocument ==
    pureOp = "splice" => pureOut = pureDoc

\* C34, amended: for every document that has a heading line for the
\* section name, replaceSection of the document's own projection returns the
\* document, so the save-back of such a buffer writes nothing; for a
\* document without one the placeholder is appended.
C34_SpliceIdentity ==
    pureOp = "splice" =>
        IF FindStart(Split(pureDoc), pureText) # -1
        THEN pureOut = pureDoc
        ELSE pureOut = Trim(Trim(pureDoc) \o "\n\n" \o NotFoundText(pureText))

\* the section B, which ends at the end of the document, was spliced back
C34_Witness ==
    /\ pureOp = "splice"
    /\ pureDoc = "# R\n## B\nx\n"
    /\ pureText = "B"
    /\ pureOut = pureDoc

-----------------------------------------------------------------------------
(* Properties of the Heading Guard after a reload (under SpecGuardReload) *)

\* the body line that only a reload puts in the buffer: no text the user
\* types equals it, so a buffer whose cursor line holds it has not been
\* edited on that line since the reload
ReloadedBody == "e"

\* the text the user's edit left on the cursor line, before any correction
TypedLine == lastChange'.lines[cursorLine + 1]

\* the step in which the user types, over a line as reloaded, a heading of
\* a depth up to the heading depth of the section
TypesShallowHeadingAfterReload ==
    /\ lastChange'.kind = "change"
    /\ lastChange'.handled
    /\ cursorLine > 0
    /\ editorLines[cursorLine + 1] = ReloadedBody
    /\ LeadingHashes(TypedLine) \in 1..headerLevel

\* C35: after a reload the first heading of a depth up to the section's
\* heading depth that is typed on a body line is normalized to that depth
\* plus one "#" characters, whatever was corrected before the reload.
C35_NormalizedAfterReload ==
    [][TypesShallowHeadingAfterReload =>
          editorLines'[cursorLine + 1] =
              Repeat("#", headerLevel + 1)
                  \o SubSeq(TypedLine, LeadingHashes(TypedLine) + 1, Len(TypedLine))]_vars

====
